---- MODULE Spec2Model ----
(***************************************************************************)
(* prom-write: the remote-write library (src/lib/src/lib.rs) and the CLI   *)
(* (src/bin/src/main.rs): its argument parser and its request builder.     *)
(*                                                                         *)
(* Rust strings are sequences of bytes (ASCII codes), so that byte-wise    *)
(* comparison, concatenation and length are those of the program.          *)
(* An f64 is its IEEE 754 binary64 pattern, as f64::to_be_bytes gives it:   *)
(* eight bytes, the byte of the sign first. An i64 is an integer.          *)
(***************************************************************************)
EXTENDS Integers, Sequences, FiniteSets, TLC

VARIABLES
    source,     \* who makes the WriteRequest: "text" (from_text_format), "metric" (CLI), "caller"
    samples,    \* parsed.samples: what Scrape::parse hands to samples_to_timeseries
    calls,      \* number of from_text_format calls made on this input
    groups,     \* all_series of the latest samples_to_timeseries call (ident -> TimeSeries)
    result,     \* Result returned by the latest from_text_format call
    first,      \* Result returned by the first from_text_format call
    args,       \* the CLI's MetricOrFile::Metric input, or None
    req,        \* the WriteRequest value a caller holds (self), or None
    sorts,      \* number of sort() calls made on req
    once,       \* req as it was after its first sort()
    sent,       \* the message handed to prost::Message::encode_to_vec
    wire,       \* bytes returned by encode_proto3 (empty before the call)
    http,       \* Result of build_http_request
    argv,       \* the argument list given to the CLI (std::env::args().skip(1))
    cmd,        \* Result of Cmd::parse(argv), or None
    out         \* Result of Args::build_http_req, or the panic that ended it, or None

\* The CLI's own state.
cli == <<argv, cmd, out>>

vars == <<source, samples, calls, groups, result, first, args, req, sorts, once, sent, wire, http, cli>>

None == [none |-> TRUE]

-----------------------------------------------------------------------------
(* Bounds of the model *)

\* Longest list of parsed samples given to from_text_format.
MaxSamples == 3

\* Most timeseries in a WriteRequest a caller builds directly.
MaxSeries == 2

-----------------------------------------------------------------------------
(* Strings *)

\* "__name__"
LABEL_NAME == <<95, 95, 110, 97, 109, 101, 95, 95>>

Min(S) == CHOOSE x \in S : \A y \in S : x <= y

\* str::cmp / String::cmp: lexicographic on bytes; -1 Less, 0 Equal, 1 Greater.
StrCmp(a, b) ==
    LET n == IF Len(a) < Len(b) THEN Len(a) ELSE Len(b)
        diff == {i \in 1..n : a[i] # b[i]}
    IN IF diff = {}
         THEN (IF Len(a) < Len(b) THEN -1 ELSE IF Len(a) > Len(b) THEN 1 ELSE 0)
         ELSE (IF a[Min(diff)] < b[Min(diff)] THEN -1 ELSE 1)

\* i64::cmp
IntCmp(a, b) == IF a < b THEN -1 ELSE IF a > b THEN 1 ELSE 0

\* slice::sort_by: a stable sort. cmp[i, j] is the comparator's answer for the
\* elements i and j of s. Element i goes to the position that counts the
\* elements ordered before it and the equal ones that precede it in the input.
SortBy(s, cmp) ==
    LET n == Len(s)
        rank(i) == 1 + Cardinality({j \in 1..n :
                        \/ cmp[j, i] < 0
                        \/ cmp[j, i] = 0 /\ j < i})
    IN [p \in 1..n |-> s[CHOOSE i \in 1..n : rank(i) = p]]

\* All the orders in which a collection with the elements S can be iterated.
Perms(S) ==
    {f \in [1..Cardinality(S) -> S] : \A x \in S : \E i \in DOMAIN f : f[i] = x}

\* HashMap<String, String>::iter(): the (key, value) pairs in an arbitrary order.
HashMapIter(m) == {[i \in DOMAIN p |-> <<p[i], m[p[i]]>>] : p \in Perms(DOMAIN m)}

\* The strings of ss one after another.
RECURSIVE Concat(_)
Concat(ss) ==
    IF ss = <<>> THEN <<>>
    ELSE IF Len(ss) = 1 THEN ss[1]
    ELSE Concat(SubSeq(ss, 1, Len(ss) \div 2)) \o Concat(SubSeq(ss, Len(ss) \div 2 + 1, Len(ss)))

IsDigit(c) == c >= 48 /\ c <= 57

IsAlpha(c) == (c >= 65 /\ c <= 90) \/ (c >= 97 /\ c <= 122)

\* str::to_ascii_lowercase
ToAsciiLowercase(s) == [i \in DOMAIN s |-> IF s[i] >= 65 /\ s[i] <= 90 THEN s[i] + 32 ELSE s[i]]

-----------------------------------------------------------------------------
(* TimeSeries, Label, Sample *)

Label(n, v) == [name |-> n, value |-> v]
Sample(v, t) == [value |-> v, timestamp |-> t]
TimeSeries(ls, ss) == [labels |-> ls, samples |-> ss]
WriteRequest(ts) == [timeseries |-> ts]

Ok(v) == [ok |-> TRUE, value |-> v]
Err(e) == [ok |-> FALSE, err |-> e]

(* f64 *)

\* The exponent of the highest bit of n >= 1.
RECURSIVE Log2(_)
Log2(n) == IF n < 2 THEN 0 ELSE 1 + Log2(n \div 2)

\* The eight bytes of 64 bits, the most significant bit first.
BitsToBytes(bits) ==
    [j \in 1..8 |->
        LET b(k) == bits[8 * (j - 1) + k]
        IN 128 * b(1) + 64 * b(2) + 32 * b(3) + 16 * b(4) + 8 * b(5) + 4 * b(6) + 2 * b(7) + b(8)]

\* The f64 of a whole number n, as a literal such as 1.0 or an integer cast makes it.
F64(n) ==
    IF n = 0 THEN <<0, 0, 0, 0, 0, 0, 0, 0>>
    ELSE LET a   == IF n < 0 THEN 0 - n ELSE n
             e   == Log2(a)
             exp == 1023 + e
         IN BitsToBytes([k \in 1..64 |->
                IF k = 1 THEN (IF n < 0 THEN 1 ELSE 0)
                ELSE IF k <= 12 THEN (exp \div 2^(12 - k)) % 2
                ELSE IF k - 12 <= e THEN (a \div 2^(e - (k - 12))) % 2
                ELSE 0])

\* f64 == 0.0: true of 0.0 and of -0.0.
IsZeroF64(v) == v[1] \in {0, 128} /\ \A j \in 2..8 : v[j] = 0

\* A sort by timestamp that is not stable: samples of one timestamp come out in
\* the reverse of their order in the input (as sort_unstable_by may leave them).
SortSamplesUnstable(ss) ==
    LET n == Len(ss)
        rank(i) == 1 + Cardinality({j \in 1..n :
                        \/ ss[j].timestamp < ss[i].timestamp
                        \/ ss[j].timestamp = ss[i].timestamp /\ j > i})
    IN [p \in 1..n |-> ss[CHOOSE i \in 1..n : rank(i) = p]]

\* self.samples.sort_by(|a, b| a.timestamp.cmp(&b.timestamp))
SortSamples(ss) ==
    SortBy(ss, [i \in DOMAIN ss, j \in DOMAIN ss |-> IntCmp(ss[i].timestamp, ss[j].timestamp)])

\* self.labels.sort_by(|a, b| a.name.cmp(&b.name))
SortLabels(ls) ==
    SortBy(ls, [i \in DOMAIN ls, j \in DOMAIN ls |-> StrCmp(ls[i].name, ls[j].name)])

\* TimeSeries::sort_labels_and_samples
SortLabelsAndSamples(series) ==
    TimeSeries(SortLabels(series.labels), SortSamples(series.samples))

\* WriteRequest::sort: every series sorted in place, the list of series untouched.
Sort(r) == WriteRequest([i \in DOMAIN r.timeseries |-> SortLabelsAndSamples(r.timeseries[i])])

\* WriteRequest::sorted
Sorted(r) == Sort(r)

-----------------------------------------------------------------------------
(* WriteRequest::from_text_format *)

\* A prometheus_parse::Sample: metric, labels (a HashMap), typed value, timestamp.
Obs(m, l, k, v, t) == [metric |-> m, labels |-> l, kind |-> k, value |-> v, timestamp |-> t]

\* A match that takes a histogram or a summary as the value 0 instead of failing.
ValueOfLenient(sample) ==
    IF sample.kind \in {"Histogram", "Summary"} THEN Ok(F64(0)) ELSE Ok(sample.value)

\* The match on sample.value.
ValueOf(sample) ==
    CASE sample.kind = "Counter"   -> Ok(sample.value)
      [] sample.kind = "Gauge"     -> Ok(sample.value)
      [] sample.kind = "Histogram" -> Err("histogram not supported yet")
      [] sample.kind = "Summary"   -> Err("summary not supported yet")
      [] sample.kind = "Untyped"   -> Ok(sample.value)

\* Labels of one sample without the name pair.
SortedPairsNoName(sample, order) ==
    SortBy(order, [i \in DOMAIN order, j \in DOMAIN order |-> StrCmp(order[i][1], order[j][1])])

\* labels of one sample: its pairs as iterated, the name pair pushed last, sorted by key.
SortedPairs(sample, order) ==
    LET labels == Append(order, <<LABEL_NAME, sample.metric>>)
    IN SortBy(labels, [i \in DOMAIN labels, j \in DOMAIN labels |-> StrCmp(labels[i][1], labels[j][1])])

\* ident: metric, "_$$_", then key, '=', value of every pair.
Ident(sample, pairs) ==
    sample.metric \o <<95, 36, 36, 95>>
        \o Concat([i \in DOMAIN pairs |-> pairs[i][1] \o <<61>> \o pairs[i][2]])

\* all_series.entry(ident).or_insert_with(...)
EntryOrInsert(all_series, ident, pairs) ==
    IF ident \in DOMAIN all_series
      THEN all_series
      ELSE all_series @@
           (ident :> TimeSeries([i \in DOMAIN pairs |-> Label(pairs[i][1], pairs[i][2])], <<>>))

\* The loop of samples_to_timeseries from sample i on; orders[i] is the order in
\* which sample i's label map is iterated. The first unsupported value returns.
RECURSIVE SamplesLoop(_, _, _, _)
SamplesLoop(ss, orders, i, all_series) ==
    IF i > Len(ss) THEN Ok(all_series)
    ELSE LET pairs == SortedPairs(ss[i], orders[i])
             ident == Ident(ss[i], pairs)
             with  == EntryOrInsert(all_series, ident, pairs)
             v     == ValueOf(ss[i])
         IN IF ~v.ok THEN Err(v.err)
            ELSE SamplesLoop(ss, orders, i + 1,
                     [with EXCEPT ![ident].samples =
                         Append(@, Sample(v.value, ss[i].timestamp))])

\* samples_to_timeseries up to its last line: Ok(all_series) or the error.
SamplesToTimeseries(ss, orders) == SamplesLoop(ss, orders, 1, <<>>)

\* all_series.into_values().collect(): the series in an arbitrary order.
IntoValues(all_series) ==
    {[i \in DOMAIN p |-> all_series[p[i]]] : p \in Perms(DOMAIN all_series)}

\* a.labels.iter().find(|x| x.name == LABEL_NAME).unwrap().value
NameOf(series) ==
    series.labels[Min({i \in DOMAIN series.labels : series.labels[i].name = LABEL_NAME})].value

\* A series sort that leaves the list as collected.
SortSeriesNot(series) == series

\* series.sort_by(|a, b| name_a.value.cmp(&name_b.value)): a list of fewer
\* than two series is sorted without a call of the comparator.
SortSeries(series) ==
    IF Len(series) < 2 THEN series
    ELSE SortBy(series, [i \in DOMAIN series, j \in DOMAIN series |->
                           StrCmp(NameOf(series[i]), NameOf(series[j]))])

\* The unwrap() of the comparator panics: it is called on every series of a
\* list of two or more, and one of them has no label named __name__.
SortPanics(series) ==
    /\ Len(series) >= 2
    /\ \E i \in DOMAIN series :
         \A h \in DOMAIN series[i].labels : series[i].labels[h].name # LABEL_NAME

\* The thread panicked: no Result is returned.
Panic == [ok |-> FALSE, err |-> "called Option::unwrap() on a None value", panic |-> TRUE]

\* from_text_format after samples_to_timeseries returned `collected`.
Finish(collected) ==
    IF SortPanics(collected) THEN Panic
    ELSE Ok(Sorted(WriteRequest(SortSeries(collected))))

\* The iteration orders of the label maps of the samples from sample i on.
RECURSIVE LabelOrdersFrom(_, _)
LabelOrdersFrom(ss, i) ==
    IF i > Len(ss) THEN {<<>>}
    ELSE {<<o>> \o rest : o \in HashMapIter(ss[i].labels), rest \in LabelOrdersFrom(ss, i + 1)}

LabelOrders(ss) == LabelOrdersFrom(ss, 1)

-----------------------------------------------------------------------------
(* Wire encoding: the prost::Message derives *)

\* The key of a field: its number and its wire type
\* (0 varint, 1 64-bit, 2 length-delimited).
Key(field, wiretype) == field * 8 + wiretype

\* A base-128 varint of n >= 0, low group first.
RECURSIVE Varint(_)
Varint(n) == IF n < 128 THEN <<n>> ELSE <<(n % 128) + 128>> \o Varint(n \div 128)

\* The nine low groups of a negative i64, all with the continuation bit.
RECURSIVE NegGroups(_, _)
NegGroups(n, k) ==
    IF k = 0 THEN <<>> ELSE <<(n % 128) + 128>> \o NegGroups(n \div 128, k - 1)

\* prost int64: the value as u64 (two's complement), as a varint; ten bytes
\* when negative.
Int64Varint(t) == IF t >= 0 THEN Varint(t) ELSE NegGroups(t, 9) \o <<1>>

\* prost double (put_f64_le): the eight bytes of the value, the lowest first.
F64LE(v) == [j \in 1..8 |-> v[9 - j]]

\* A string field: left out when empty (proto3 default).
EncodeString(field, s) ==
    IF s = <<>> THEN <<>> ELSE <<Key(field, 2)>> \o Varint(Len(s)) \o s

\* A message of a repeated field: always written, with its length.
EncodeMessage(field, m) == <<Key(field, 2)>> \o Varint(Len(m)) \o m

\* Label: #[prost(string, tag = "1")] name, #[prost(string, tag = "2")] value
EncodeLabel(l) == EncodeString(1, l.name) \o EncodeString(2, l.value)

\* The k low bytes of the two's complement of n, low byte first.
RECURSIVE LEBytes(_, _)
LEBytes(n, k) == IF k = 0 THEN <<>> ELSE <<n % 256>> \o LEBytes(n \div 256, k - 1)

\* A Sample whose timestamp is written as a fixed 64-bit field (sfixed64).
EncodeSampleFixed(s) ==
    (IF IsZeroF64(s.value) THEN <<>> ELSE <<Key(1, 1)>> \o F64LE(s.value))
    \o (IF s.timestamp = 0 THEN <<>> ELSE <<Key(2, 1)>> \o LEBytes(s.timestamp, 8))

\* Sample: #[prost(double, tag = "1")] value, #[prost(int64, tag = "2")] timestamp
EncodeSample(s) ==
    (IF IsZeroF64(s.value) THEN <<>> ELSE <<Key(1, 1)>> \o F64LE(s.value))
    \o (IF s.timestamp = 0 THEN <<>> ELSE <<Key(2, 0)>> \o Int64Varint(s.timestamp))

\* TimeSeries: repeated Label labels = 1, repeated Sample samples = 2
EncodeTimeSeries(series) ==
    Concat([i \in DOMAIN series.labels |-> EncodeMessage(1, EncodeLabel(series.labels[i]))])
    \o Concat([i \in DOMAIN series.samples |-> EncodeMessage(2, EncodeSample(series.samples[i]))])

\* WriteRequest: repeated TimeSeries timeseries = 1; prost::Message::encode_to_vec
EncodeToVec(r) ==
    Concat([i \in DOMAIN r.timeseries |-> EncodeMessage(1, EncodeTimeSeries(r.timeseries[i]))])

\* WriteRequest::encode_proto3
EncodeProto3(r) == EncodeToVec(Sorted(r))

(* snap::raw::Encoder: the block format of snappy *)

\* The bits of the hash table of a block: the table is the power of two that
\* holds the block, from 256 to 16384 entries.
TableBits(len) == CHOOSE k \in 8..14 : (2^k >= len \/ k = 14) /\ (k = 8 \/ 2^(k - 1) < len)

\* The hash of the four bytes at src[i + 1 ..]: the little-endian u32 times
\* 0x1E35A7BD, wrapping at 2^32, shifted right; computed byte by byte.
SnapHash(src, i, shift) ==
    LET x  == [k \in 0..3 |-> src[i + 1 + k]]
        m  == <<189, 167, 53, 30>>
        c0 == x[0] * m[1]
        c1 == x[0] * m[2] + x[1] * m[1] + c0 \div 256
        c2 == x[0] * m[3] + x[1] * m[2] + x[2] * m[1] + c1 \div 256
        c3 == x[0] * m[4] + x[1] * m[3] + x[2] * m[2] + x[3] * m[1] + c2 \div 256
    IN (((c3 % 256) * 65536 + (c2 % 256) * 256 + (c1 % 256)) \div 2^(shift - 8))

\* A literal element: the tag with the length less one, then the bytes.
EmitLiteral(lit) ==
    LET n == Len(lit) - 1
    IN (IF n <= 59 THEN <<n * 4>>
        ELSE IF n < 256 THEN <<60 * 4, n>>
        ELSE <<61 * 4, n % 256, n \div 256>>) \o lit

\* Copy elements for a match: copies of 64 bytes while 68 or more remain, one
\* of 60 when more than 64 remain, then a two-byte element if the rest fits it.
EmitCopy(offset, len) ==
    LET k     == IF len >= 68 THEN (len - 68) \div 64 + 1 ELSE 0
        mid   == len - 64 * k
        rest  == IF mid > 64 THEN mid - 60 ELSE mid
        Copy2(l) == <<(l - 1) * 4 + 2, offset % 256, offset \div 256>>
    IN [j \in 1..(3 * k) |-> Copy2(64)[((j - 1) % 3) + 1]]
       \o (IF mid > 64 THEN Copy2(60) ELSE <<>>)
       \o (IF rest <= 11 /\ offset <= 2047
             THEN <<(offset \div 256) * 32 + (rest - 4) * 4 + 1, offset % 256>>
             ELSE Copy2(rest))

\* One turn of a loop of Block::compress on a block of 17 bytes or more: of the
\* loop that looks for four bytes seen before, or of the loop that emits a match.
\* Positions count from 0; table holds the positions stored, 0 where none is.
BlockStep(src, st) ==
    LET len     == Len(src)
        shift   == 32 - TableBits(len)
        s_limit == len - 15
        At(t, h) == IF h \in DOMAIN t THEN t[h] ELSE 0
        Same4(i, j) == \A k \in 1..4 : src[i + k] = src[j + k]
        Done(dst, next_emit) ==
            [st EXCEPT !.phase = "done",
                       !.dst = IF next_emit < len
                                 THEN dst \o EmitLiteral(SubSeq(src, next_emit + 1, len))
                                 ELSE dst]
    IN IF st.phase = "find"
         THEN LET s      == st.next_s
                  step   == st.skip \div 32
                  next_s == s + step
                  candidate == At(st.table, st.next_hash)
              IN IF next_s > s_limit THEN Done(st.dst, st.next_emit)
                 ELSE IF Same4(s, candidate)
                   THEN [st EXCEPT !.phase = "match", !.s = s, !.candidate = candidate,
                                   !.table = (st.next_hash :> s) @@ @,
                                   !.dst = @ \o EmitLiteral(SubSeq(src, st.next_emit + 1, s))]
                   ELSE [st EXCEPT !.next_s = next_s, !.skip = @ + step,
                                   !.table = (st.next_hash :> s) @@ @,
                                   !.next_hash = SnapHash(src, next_s, shift)]
       ELSE IF st.phase = "match"
         THEN LET base == st.s
                  more == CHOOSE n \in 0..len :
                            /\ \/ base + 4 + n >= len
                               \/ src[st.candidate + 4 + n + 1] # src[base + 4 + n + 1]
                            /\ \A k \in 0..(n - 1) :
                                 /\ base + 4 + k < len
                                 /\ src[st.candidate + 4 + k + 1] = src[base + 4 + k + 1]
                  s    == base + 4 + more
                  dst  == st.dst \o EmitCopy(base - st.candidate, s - base)
                  t1   == (SnapHash(src, s - 1, shift) :> (s - 1)) @@ st.table
                  curr == SnapHash(src, s, shift)
                  candidate == At(t1, curr)
                  t2   == (curr :> s) @@ t1
              IN IF s >= s_limit THEN Done(dst, s)
                 ELSE IF Same4(s, candidate)
                   THEN [st EXCEPT !.s = s, !.candidate = candidate, !.table = t2,
                                   !.dst = dst, !.next_emit = s]
                   ELSE [st EXCEPT !.phase = "find", !.next_s = s + 1, !.skip = 32,
                                   !.table = t2, !.dst = dst, !.next_emit = s,
                                   !.next_hash = SnapHash(src, s + 1, shift)]
       ELSE st

\* n turns, taken as two halves so that the evaluation stays shallow.
RECURSIVE BlockSteps(_, _, _)
BlockSteps(src, n, st) ==
    IF n = 0 \/ st.phase = "done" THEN st
    ELSE IF n = 1 THEN BlockStep(src, st)
    ELSE BlockSteps(src, n - n \div 2, BlockSteps(src, n \div 2, st))

\* Block::compress; a block under 17 bytes is emitted as one literal.
CompressBlock(src) ==
    IF Len(src) < 17 THEN EmitLiteral(src)
    ELSE BlockSteps(src, Len(src) + 1,
                    [phase |-> "find", s |-> 1, next_s |-> 1, skip |-> 32, candidate |-> 0,
                     next_emit |-> 0, next_hash |-> SnapHash(src, 1, 32 - TableBits(Len(src))),
                     table |-> [h \in {} |-> 0], dst |-> <<>>]).dst

\* snap::raw::Encoder::compress_vec: the length of the input as a varint, then
\* its blocks of at most 65536 bytes, each compressed on its own.
CompressVec(b) ==
    IF b = <<>> THEN <<0>>
    ELSE Varint(Len(b))
         \o Concat([k \in 1..((Len(b) + 65535) \div 65536) |->
                       CompressBlock(SubSeq(b, 65536 * (k - 1) + 1,
                                            IF 65536 * k < Len(b) THEN 65536 * k ELSE Len(b)))])

\* WriteRequest::encode_compressed
EncodeCompressed(r) == CompressVec(EncodeProto3(r))

-----------------------------------------------------------------------------
(* WriteRequest::build_http_request *)

\* "application/x-protobuf"
CONTENT_TYPE ==
    <<97, 112, 112, 108, 105, 99, 97, 116, 105, 111, 110, 47, 120, 45,
      112, 114, 111, 116, 111, 98, 117, 102>>
\* "X-Prometheus-Remote-Write-Version"
HEADER_NAME_REMOTE_WRITE_VERSION ==
    <<88, 45, 80, 114, 111, 109, 101, 116, 104, 101, 117, 115, 45, 82, 101, 109,
      111, 116, 101, 45, 87, 114, 105, 116, 101, 45, 86, 101, 114, 115, 105, 111, 110>>
\* "0.1.0"
REMOTE_WRITE_VERSION_01 == <<48, 46, 49, 46, 48>>
\* "snappy"
Str_snappy == <<115, 110, 97, 112, 112, 121>>
\* http::header::CONTENT_TYPE, CONTENT_ENCODING, USER_AGENT
HDR_CONTENT_TYPE == <<99, 111, 110, 116, 101, 110, 116, 45, 116, 121, 112, 101>>
HDR_CONTENT_ENCODING ==
    <<99, 111, 110, 116, 101, 110, 116, 45, 101, 110, 99, 111, 100, 105, 110, 103>>
HDR_USER_AGENT == <<117, 115, 101, 114, 45, 97, 103, 101, 110, 116>>

\* HeaderName from a &str: header names are kept in lower case.
HeaderName(s) == [i \in DOMAIN s |-> IF s[i] >= 65 /\ s[i] <= 90 THEN s[i] + 32 ELSE s[i]]

\* HeaderValue from a &str: visible ASCII, space and tab only.
ValidHeaderValue(s) == \A i \in DOMAIN s : (s[i] >= 32 /\ s[i] # 127) \/ s[i] = 9

\* http::Uri from a &str (Uri::from_shared) and the string it displays as: the
\* scheme before "://", the authority up to the first '/', '?' or '#', the
\* path and the query. A fragment is dropped, a missing path is "/". The error
\* is the one the scan meets first; nothing after the "://" is an empty string.
\* The bytes from 0x7F on pass in a path and a query (the input is a &str), and
\* '~' passes in a scheme. A string without "://" is read as an authority alone
\* and displayed as it is.
HttpUri(s) ==
    LET len      == Len(s)
        UriChar(c)    == \/ IsAlpha(c) \/ IsDigit(c)
                         \/ c \in {33, 36, 38, 39, 40, 41, 42, 43, 44, 45, 46, 59, 61, 95, 126}
                         \/ c \in {35, 47, 58, 63, 64, 91, 93}
        SchemeChar(c) == IsAlpha(c) \/ IsDigit(c) \/ c \in {43, 45, 46, 58, 126}
        PathChar(c)   == \/ c \in {33, 61, 124, 126, 34, 123, 125}
                         \/ (c >= 36 /\ c <= 59) \/ (c >= 64 /\ c <= 95) \/ (c >= 97 /\ c <= 122)
                         \/ c >= 127
        QueryChar(c)  == c \in {33, 61} \/ (c >= 36 /\ c <= 59) \/ c >= 63
        Starts(p)     == len >= Len(p) /\ ToAsciiLowercase(SubSeq(s, 1, Len(p))) = p
        \* Scheme2::parse: "http://", "https://", or the bytes before a "://"
        std_http == Starts(<<104, 116, 116, 112, 58, 47, 47>>)
        std_https == Starts(<<104, 116, 116, 112, 115, 58, 47, 47>>)
        stop     == Min({i \in 1..(len + 1) : i > len \/ ~SchemeChar(s[i]) \/ s[i] = 58})
        other    == /\ ~std_http /\ ~std_https /\ len > 3
                    /\ stop + 2 <= len /\ s[stop] = 58 /\ s[stop + 1] = 47 /\ s[stop + 2] = 47
        none     == ~std_http /\ ~std_https /\ ~other
        scheme   == IF std_http THEN <<104, 116, 116, 112>>
                    ELSE IF std_https THEN <<104, 116, 116, 112, 115>>
                    ELSE SubSeq(s, 1, stop - 1)
        \* PathAndQuery::from_shared on the bytes from start
        PathAndQuery(start) ==
            LET p == Min({i \in start..(len + 1) :
                            i > len \/ s[i] \in {63, 35} \/ ~PathChar(s[i])})
                q == Min({i \in (p + 1)..(len + 1) :
                            i > len \/ s[i] = 35 \/ ~QueryChar(s[i])})
            IN IF p > len \/ s[p] = 35 THEN Ok(SubSeq(s, start, p - 1))
               ELSE IF s[p] # 63 THEN Err("invalid uri character")
               ELSE IF q <= len /\ s[q] # 35 THEN Err("invalid uri character")
               ELSE Ok(SubSeq(s, start, q - 1))
        \* the authority and the path put after the scheme
        Join(authority, rest) ==
            IF ~rest.ok THEN rest
            ELSE Ok(scheme \o <<58, 47, 47>> \o authority
                    \o (IF rest.value = <<>> \/ rest.value[1] = 63 THEN <<47>> ELSE <<>>)
                    \o rest.value)
        \* Authority::parse on the bytes from there up to end
        Authority(from, end) ==
            LET Reset(i) == LET at == {j \in from..(i - 1) : s[j] \in {64, 93}}
                            IN IF at = {} THEN from - 1 ELSE CHOOSE j \in at : \A k \in at : k <= j
                Colons(i)  == Cardinality({j \in (Reset(i) + 1)..(i - 1) : s[j] = 58})
                Percent(i) == \E j \in (Reset(i) + 1)..(i - 1) : s[j] = 37
                Opened(i)  == \E j \in from..(i - 1) : s[j] = 91
                Closed(i)  == \E j \in from..(i - 1) : s[j] = 93
                Wrong(i)   == \/ s[i] = 58 /\ Colons(i) >= 8
                              \/ s[i] = 91 /\ (Percent(i) \/ Opened(i))
                              \/ s[i] = 93 /\ (~Opened(i) \/ Closed(i))
                              \/ s[i] # 37 /\ ~UriChar(s[i])
                wrong    == {i \in from..(end - 1) : Wrong(i)}
            IN IF wrong # {}
                 THEN (IF s[Min(wrong)] \in {58, 91, 93}
                         THEN Err("invalid authority") ELSE Err("invalid uri character"))
               ELSE IF \/ Opened(end) # Closed(end)
                       \/ Colons(end) > 1
                       \/ (end > from /\ s[end - 1] = 64)
                       \/ Percent(end)
                 THEN Err("invalid authority")
               ELSE IF none
                 THEN (IF end > len THEN Ok(s)
                       ELSE IF len = 1 THEN Err("invalid uri character")
                       ELSE Err("invalid format"))
               ELSE IF end = from THEN Err("invalid format")
               ELSE Join(SubSeq(s, from, end - 1), PathAndQuery(end))
        From(from) ==
            Authority(from, Min({i \in from..(len + 1) : i > len \/ s[i] \in {47, 63, 35}}))
    IN IF len > 65534 THEN Err("uri too long")
       ELSE IF len = 0 THEN Err("empty string")
       ELSE IF s \in {<<47>>, <<42>>} THEN Ok(s)
       ELSE IF len > 1 /\ s[1] = 47 THEN PathAndQuery(1)
       ELSE IF other /\ stop - 1 > 64 THEN Err("scheme too long")
       ELSE IF ~none /\ len = Len(scheme) + 3 THEN Err("empty string")
       ELSE From(IF none THEN 1 ELSE Len(scheme) + 4)

\* A builder that leaves out the content-encoding header.
BuildHttpRequestNoEncoding(r, endpoint, user_agent) ==
    LET Body(uri, body) ==
            IF ~uri.ok THEN uri
            ELSE IF ~ValidHeaderValue(user_agent) THEN Err("failed to parse header value")
            ELSE Ok([method  |-> "POST",
                     uri     |-> uri.value,
                     headers |-> << <<HDR_CONTENT_TYPE, CONTENT_TYPE>>,
                                    <<HeaderName(HEADER_NAME_REMOTE_WRITE_VERSION), REMOTE_WRITE_VERSION_01>>,
                                    <<HDR_USER_AGENT, user_agent>> >>,
                     body    |-> body])
    IN Body(HttpUri(endpoint), EncodeCompressed(r))

\* build_http_request: the builder takes the endpoint's string as the URI and
\* appends the four headers in order; body() returns the first error the
\* builder met, a URI it cannot parse before a header value it cannot accept.
BuildHttpRequest(r, endpoint, user_agent) ==
    LET Body(uri, body) ==
            IF ~uri.ok THEN uri
            ELSE IF ~ValidHeaderValue(user_agent) THEN Err("failed to parse header value")
            ELSE Ok([method  |-> "POST",
                     uri     |-> uri.value,
                     headers |-> << <<HDR_CONTENT_TYPE, CONTENT_TYPE>>,
                                    <<HeaderName(HEADER_NAME_REMOTE_WRITE_VERSION), REMOTE_WRITE_VERSION_01>>,
                                    <<HDR_CONTENT_ENCODING, Str_snappy>>,
                                    <<HDR_USER_AGENT, user_agent>> >>,
                     body    |-> body])
    IN Body(HttpUri(endpoint), EncodeCompressed(r))

-----------------------------------------------------------------------------
(* Args::build_write_request, MetricOrFile::Metric *)

\* The series of a manually specified metric: the labels as the map iterates
\* them, then the name label pushed last; one sample at the current time.
BuildWriteRequest(metric, order, time) ==
    WriteRequest(<<TimeSeries(
        Append([i \in DOMAIN order |-> Label(order[i][1], order[i][2])],
               Label(LABEL_NAME, metric.name)),
        <<Sample(metric.value, time)>>)>>)

-----------------------------------------------------------------------------
(* Cmd::parse: string helpers *)

\* A HashMap with no entry.
EmptyMap == [k \in {} |-> <<>>]

\* Option<T>: None is the empty sequence, Some(v) the sequence of v alone.
NoneOpt == <<>>
Some(v) == <<v>>
IsSome(o) == Len(o) = 1
Unwrap(o) == o[1]

\* The characters with the White_Space property, in UTF-8: U+0009 to U+000D,
\* U+0020, U+0085, U+00A0, U+1680, U+2000 to U+200A, U+2028, U+2029, U+202F,
\* U+205F, U+3000.
WhiteSpace ==
    {<<c>> : c \in {9, 10, 11, 12, 13, 32}}
    \cup {<<194, 133>>, <<194, 160>>, <<225, 154, 128>>}
    \cup {<<226, 128, c>> : c \in (128..138) \cup {168, 169, 175}}
    \cup {<<226, 129, 159>>, <<227, 128, 128>>}

\* str::trim: the string without the white space it starts and ends with.
Trim(s) ==
    LET White(i) == \E w \in WhiteSpace : \E k \in 1..Len(w) :
                        /\ i - k + 1 >= 1
                        /\ i - k + Len(w) <= Len(s)
                        /\ SubSeq(s, i - k + 1, i - k + Len(w)) = w
        keep == {i \in DOMAIN s : ~White(i)}
    IN IF keep = {} THEN <<>>
       ELSE SubSeq(s, Min(keep), CHOOSE i \in keep : \A j \in keep : j <= i)

\* str::split_once(c): the parts before and after the first c, or None.
SplitOnce(s, c) ==
    LET at == {i \in DOMAIN s : s[i] = c}
    IN IF at = {} THEN NoneOpt
       ELSE Some(<<SubSeq(s, 1, Min(at) - 1), SubSeq(s, Min(at) + 1, Len(s))>>)

\* str::ends_with
EndsWith(s, suffix) ==
    Len(s) >= Len(suffix) /\ SubSeq(s, Len(s) - Len(suffix) + 1, Len(s)) = suffix

\* The number a string of decimal digits stands for.
RECURSIVE Decimal(_)
Decimal(s) ==
    IF s = <<>> THEN 0 ELSE 10 * Decimal(SubSeq(s, 1, Len(s) - 1)) + (s[Len(s)] - 48)

\* str::parse::<u64>: digits after an optional '+'. A number TLC's integers
\* cannot hold (2^31 and above) is given as its decimal digits, without zeros
\* in front.
ParseU64(s) ==
    LET d     == IF s # <<>> /\ s[1] = 43 THEN Tail(s) ELSE s
        run   == Min({k \in 0..Len(d) : k = Len(d) \/ ~IsDigit(d[k + 1])})
        zeros == Min({k \in 0..run : k = run \/ d[k + 1] # 48})
        z     == SubSeq(d, zeros + 1, run)
        \* "18446744073709551615", u64::MAX
        max   == <<49, 56, 52, 52, 54, 55, 52, 52, 48, 55, 51, 55, 48, 57, 53, 53, 49, 54, 49, 53>>
        \* "2147483647"
        int   == <<50, 49, 52, 55, 52, 56, 51, 54, 52, 55>>
    IN IF s = <<>> THEN Err("cannot parse integer from empty string")
       ELSE IF Len(z) > 20 \/ (Len(z) = 20 /\ StrCmp(z, max) > 0)
         THEN Err("number too large to fit in target type")
       ELSE IF run = 0 \/ run < Len(d) THEN Err("invalid digit found in string")
       ELSE IF Len(z) < 10 \/ (Len(z) = 10 /\ StrCmp(z, int) <= 0) THEN Ok(Decimal(z))
       ELSE Ok(z)

\* The f64 nearest to digits * 10^x, ties going to the even fraction: the sign,
\* the decimal digits (numbers 0..9, the first one not 0) and the power of ten.
\* The quotient n / m of digits * 10^x is brought between 1 and 2 by doubling
\* n or m, then divided bit by bit; n and m are held in limbs of nine decimal
\* digits, the lowest first.
DecimalToF64(neg, digits, x) ==
    LET base == 1000000000
        sign == IF neg THEN 1 ELSE 0
        nd   == Len(digits)
        num  == IF x >= 0 THEN digits \o [i \in 1..x |-> 0] ELSE digits
        den  == IF x >= 0 THEN <<1>> ELSE <<1>> \o [i \in 1..(0 - x) |-> 0]
        long == IF Len(num) > Len(den) THEN Len(num) ELSE Len(den)
        w    == (long + 8) \div 9 + 1
        Digit(ds, p) == IF p >= 1 THEN ds[p] ELSE 0
        Limbs(ds) ==
            [i \in 1..w |->
                LET p == Len(ds) - 9 * (i - 1)
                IN Digit(ds, p) + 10 * Digit(ds, p - 1) + 100 * Digit(ds, p - 2)
                   + 1000 * Digit(ds, p - 3) + 10000 * Digit(ds, p - 4)
                   + 100000 * Digit(ds, p - 5) + 1000000 * Digit(ds, p - 6)
                   + 10000000 * Digit(ds, p - 7) + 100000000 * Digit(ds, p - 8)]
        Dbl(a) == [i \in 1..w |->
                      ((2 * a[i]) % base) + (IF i > 1 /\ a[i - 1] >= base \div 2 THEN 1 ELSE 0)]
        Cmp(a, b) ==
            LET differ == {k \in 1..w : a[w + 1 - k] # b[w + 1 - k]}
            IN IF differ = {} THEN 0
               ELSE IF a[w + 1 - Min(differ)] < b[w + 1 - Min(differ)] THEN -1 ELSE 1
        RECURSIVE Borrow(_)
        Borrow(d) ==
            IF \A i \in 1..w : d[i] >= 0 THEN d
            ELSE Borrow([i \in 1..w |->
                            d[i] + (IF d[i] < 0 THEN base ELSE 0)
                                 - (IF i > 1 /\ d[i - 1] < 0 THEN 1 ELSE 0)])
        Sub(a, b) == Borrow([i \in 1..w |-> a[i] - b[i]])
        Precision(e) == IF e >= -1022 THEN 53 ELSE e + 1075
        Step(st) ==
            IF st.phase = "scale"
              THEN IF Cmp(st.n, st.m) < 0
                     THEN [st EXCEPT !.n = Dbl(@), !.e = @ - 1]
                   ELSE IF Cmp(st.n, Dbl(st.m)) >= 0
                     THEN [st EXCEPT !.m = Dbl(@), !.e = @ + 1]
                   ELSE [st EXCEPT !.phase = "divide"]
            ELSE IF st.phase = "divide" /\ Len(st.q) < Precision(st.e)
              THEN IF Cmp(st.n, st.m) >= 0
                     THEN [st EXCEPT !.n = Dbl(Sub(@, st.m)), !.q = Append(@, 1)]
                     ELSE [st EXCEPT !.n = Dbl(@), !.q = Append(@, 0)]
            ELSE [st EXCEPT !.phase = "done"]
        RECURSIVE Steps(_, _)
        Steps(k, st) ==
            IF k = 0 \/ st.phase = "done" THEN st
            ELSE IF k = 1 THEN Step(st)
            ELSE Steps(k - k \div 2, Steps(k \div 2, st))
        \* the bits, rounded up where the rest is above a half or a tie at an odd
        Round(low, up) ==
            LET zero == CHOOSE z \in 1..63 : low[z] = 0 /\ \A k \in (z + 1)..63 : low[k] = 1
            IN IF up THEN [k \in 1..63 |-> IF k < zero THEN low[k] ELSE IF k = zero THEN 1 ELSE 0]
               ELSE low
        \* the exponent end.e and the quotient's bits end.q made into an f64
        Pack(end) ==
            LET p    == Precision(end.e)
                exp  == IF end.e >= -1022 THEN end.e + 1023 ELSE 0
                frac == IF end.e >= -1022 THEN Tail(end.q) ELSE [i \in 1..(52 - p) |-> 0] \o end.q
            IN IF end.e > 1023 THEN <<128 * sign + 127, 240, 0, 0, 0, 0, 0, 0>>
               ELSE IF p < 0 THEN <<128 * sign, 0, 0, 0, 0, 0, 0, 0>>
               ELSE BitsToBytes(<<sign>> \o Round([k \in 1..11 |-> (exp \div 2^(11 - k)) % 2] \o frac,
                                                  \/ Cmp(end.n, end.m) > 0
                                                  \/ Cmp(end.n, end.m) = 0 /\ p >= 1 /\ end.q[p] = 1))
    IN IF nd = 0 \/ nd + x <= -324 THEN <<128 * sign, 0, 0, 0, 0, 0, 0, 0>>
       ELSE IF nd + x >= 310 THEN <<128 * sign + 127, 240, 0, 0, 0, 0, 0, 0>>
       ELSE Pack(Steps(30 * w + 60,
                       [phase |-> "scale", n |-> Limbs(num), m |-> Limbs(den), e |-> 0, q |-> <<>>]))

\* str::parse::<f64>: an optional sign, then "inf", "infinity" or "nan" in any
\* case, or digits with an optional '.' and an optional exponent ('e' or 'E',
\* an optional sign, digits); at least one digit before the exponent.
ParseF64(s) ==
    LET neg   == s # <<>> /\ s[1] = 45
        t     == IF s # <<>> /\ s[1] \in {43, 45} THEN Tail(s) ELSE s
        sign  == IF neg THEN 128 ELSE 0
        DigitsFrom(i) ==
            Min({k \in 0..(Len(t) - i + 1) : i + k > Len(t) \/ ~IsDigit(t[i + k])})
        int   == DigitsFrom(1)
        dot   == int < Len(t) /\ t[int + 1] = 46
        after == IF dot THEN DigitsFrom(int + 2) ELSE 0
        all   == [i \in 1..(int + after) |->
                     (IF i <= int THEN t[i] ELSE t[i + 1]) - 48]
        lead  == Min({k \in 0..Len(all) : k = Len(all) \/ all[k + 1] # 0})
        \* the exponent's digits without the zeros that lead, as a number
        Value(edig) ==
            IF Len(edig) <= 5 THEN Decimal(edig)
            ELSE IF Decimal(SubSeq(edig, 1, 5)) >= 65536 THEN Decimal(SubSeq(edig, 1, 5))
            ELSE Decimal(SubSeq(edig, 1, 6))
        \* what follows the mant bytes of the mantissa: nothing, or an exponent
        Exponent(mant) ==
            LET exp   == mant < Len(t) /\ t[mant + 1] \in {101, 69}
                esign == exp /\ mant + 1 < Len(t) /\ t[mant + 2] \in {43, 45}
                efrom == mant + 2 + (IF esign THEN 1 ELSE 0)
                elen  == IF exp THEN DigitsFrom(efrom) ELSE 0
                ezero == Min({k \in 0..elen : k = elen \/ t[efrom + k] # 48})
                enum  == Value(SubSeq(t, efrom + ezero, efrom + elen - 1))
            IN [ok |-> IF exp THEN elen > 0 /\ efrom + elen - 1 = Len(t) ELSE mant = Len(t),
                x  |-> IF esign /\ t[mant + 2] = 45 THEN 0 - enum ELSE enum]
        tail  == Exponent(int + (IF dot THEN 1 + after ELSE 0))
        word  == ToAsciiLowercase(t)
    IN IF s = <<>> THEN Err("cannot parse float from empty string")
       ELSE IF int + after > 0 /\ tail.ok
         THEN Ok(DecimalToF64(neg, SubSeq(all, lead + 1, Len(all)), tail.x - after))
       ELSE IF word \in {<<105, 110, 102>>, <<105, 110, 102, 105, 110, 105, 116, 121>>}
         THEN Ok(<<sign + 127, 240, 0, 0, 0, 0, 0, 0>>)
       ELSE IF word = <<110, 97, 110>>
         THEN Ok(<<sign + 127, 248, 0, 0, 0, 0, 0, 0>>)
       ELSE Err("invalid float literal")

\* The bytes a header name may hold (RFC 7230 tchar).
IsTChar(c) ==
    \/ IsAlpha(c)
    \/ IsDigit(c)
    \/ c \in {33, 35, 36, 37, 38, 39, 42, 43, 45, 46, 94, 95, 96, 124, 126}

\* The longest header name, in bytes (http::header::name MAX_HEADER_NAME_LEN).
MAX_HEADER_NAME_LEN == 65535

\* str::parse::<http::HeaderName>: the name in lower case; an empty name, one
\* longer than MAX_HEADER_NAME_LEN and one with another byte are errors.
ParseHeaderName(s) ==
    IF s # <<>> /\ Len(s) <= MAX_HEADER_NAME_LEN /\ \A i \in DOMAIN s : IsTChar(s[i])
      THEN Ok(HeaderName(s)) ELSE Err("invalid HTTP header name")

\* str::parse::<http::HeaderValue>
ParseHeaderValue(s) ==
    IF ValidHeaderValue(s) THEN Ok(s) ELSE Err("failed to parse header value")

\* The largest table of a HeaderMap, in slots (http::header::map MAX_SIZE).
MAX_SIZE == 32768

\* The entries a table of cap slots holds (http::header::map usable_capacity).
UsableCapacity(cap) == cap - cap \div 4

\* An insert that moves this many entries of the table puts the map in danger
\* (http::header::map DISPLACEMENT_THRESHOLD). A probe of 512 slots
\* (FORWARD_SHIFT_THRESHOLD) does so too; it passes as many entries.
DISPLACEMENT_THRESHOLD == 128

\* HeaderMap::new(): no entry and no table yet. A HeaderMap is its entries, in
\* the order they were inserted, the slots of its hash table, and its danger:
\* Green, Yellow after an insert that moved too many entries, Red once the
\* table was rebuilt with a random hasher.
HeaderMapNew == [entries |-> <<>>, slots |-> 0, danger |-> "Green"]

\* The map of a request whose builder appended these headers to a new map,
\* fewer than the first table holds: the table has its first size.
HeaderMapOf(entries) == [entries |-> entries, slots |-> 8, danger |-> "Green"]

\* HeaderMap::try_grow: a table of new_raw_cap slots, unless it passes MAX_SIZE.
TryGrow(map, new_raw_cap) ==
    IF new_raw_cap > MAX_SIZE THEN Err("MaxSizeReached")
    ELSE Ok([map EXCEPT !.slots = new_raw_cap])

\* HeaderMap::try_reserve_one, the first step of every insert. A Yellow map
\* whose entries fill a fifth of the table or more (LOAD_FACTOR_THRESHOLD, 0.2
\* as f32: the slots are a power of two, so the test is 5 * entries >= slots)
\* is Green again and doubles its table; a Yellow map with fewer is Red from
\* now on. Else a map that holds as many entries as its table takes gets its
\* first table of 8 slots, or doubles it.
TryReserveOne(map) ==
    LET len == Len(map.entries)
    IN IF map.danger = "Yellow"
         THEN IF 5 * len >= map.slots
                THEN TryGrow([map EXCEPT !.danger = "Green"], map.slots * 2)
                ELSE Ok([map EXCEPT !.danger = "Red"])
       ELSE IF len = UsableCapacity(map.slots)
         THEN IF len = 0 THEN Ok([map EXCEPT !.slots = 8])
              ELSE TryGrow(map, map.slots * 2)
       ELSE Ok(map)

\* HeaderMap::insert. The map makes room first, whatever the name: when that
\* fails the expect() of insert panics. Then the value of a name present is
\* replaced where it stands; a new name goes last, and a Green map turns
\* Yellow when placing it moved DISPLACEMENT_THRESHOLD entries or more or ended
\* a probe of 512 slots or more. That depends on the hashes of the names, which
\* the http crate computes: shifts is this outcome as a function of the names
\* the map holds after the insert, in their order. It is looked at only for a
\* map of DISPLACEMENT_THRESHOLD entries or more: a smaller one has not that
\* many entries to move or to pass.
HeaderInsert(map, name, value, shifts) ==
    LET SizeOverflows ==
            [ok |-> FALSE, panic |-> TRUE, err |-> "size overflows MAX_SIZE: MaxSizeReached"]
        Place(room) ==
            IF ~room.ok THEN SizeOverflows
            ELSE LET m == room.value
                     e == m.entries
                     names == [i \in DOMAIN e |-> e[i][1]]
                 IN IF \E i \in DOMAIN e : e[i][1] = name
                      THEN Ok([m EXCEPT !.entries =
                                  [i \in DOMAIN e |->
                                      IF e[i][1] = name THEN <<name, value>> ELSE e[i]]])
                    ELSE IF Len(e) >= MAX_SIZE THEN SizeOverflows
                    ELSE Ok([m EXCEPT !.entries = Append(e, <<name, value>>),
                                      !.danger =
                                          IF /\ m.danger = "Green"
                                             /\ Len(e) >= DISPLACEMENT_THRESHOLD
                                             /\ shifts[Append(names, name)]
                                            THEN "Yellow" ELSE @])
    IN Place(TryReserveOne(map))

(* The arguments Cmd::parse knows and the strings it compares with *)

\* The arguments: "--help", "--version", "-u", "--url", "-h", "--header",
\* "--timeout", "-f", "--file", "-n", "--name", "-t", "--type", "-v", "--value",
\* "-l", "--label".
Arg ==
    [ help |-> <<45, 45, 104, 101, 108, 112>>,
      version |-> <<45, 45, 118, 101, 114, 115, 105, 111, 110>>,
      u |-> <<45, 117>>,
      url |-> <<45, 45, 117, 114, 108>>,
      h |-> <<45, 104>>,
      header |-> <<45, 45, 104, 101, 97, 100, 101, 114>>,
      timeout |-> <<45, 45, 116, 105, 109, 101, 111, 117, 116>>,
      f |-> <<45, 102>>,
      file |-> <<45, 45, 102, 105, 108, 101>>,
      n |-> <<45, 110>>,
      name |-> <<45, 45, 110, 97, 109, 101>>,
      t |-> <<45, 116>>,
      type |-> <<45, 45, 116, 121, 112, 101>>,
      v |-> <<45, 118>>,
      value |-> <<45, 45, 118, 97, 108, 117, 101>>,
      l |-> <<45, 108>>,
      label |-> <<45, 45, 108, 97, 98, 101, 108>> ]

\* The metric types -t/--type knows: "counter", "gauge", "histogram", "summary".
TypeName ==
    [ counter |-> <<99, 111, 117, 110, 116, 101, 114>>,
      gauge |-> <<103, 97, 117, 103, 101>>,
      histogram |-> <<104, 105, 115, 116, 111, 103, 114, 97, 109>>,
      summary |-> <<115, 117, 109, 109, 97, 114, 121>> ]

\* "_total"
Str_total == <<95, 116, 111, 116, 97, 108>>

-----------------------------------------------------------------------------
(* Cmd::parse *)

\* enum Cmd
CmdHelp == [cmd |-> "Help"]
CmdVersion == [cmd |-> "Version"]
CmdRun(a) == [cmd |-> "Run", args |-> a]

\* enum MetricOrFile
File(f) == [file |-> TRUE, path |-> f]
Metric(name, kind, labels, value) ==
    [file |-> FALSE, name |-> name, kind |-> kind, labels |-> labels, value |-> value]

\* The locals of Cmd::parse before the loop.
ParseStart ==
    [url |-> NoneOpt, help |-> FALSE, version |-> FALSE, name |-> NoneOpt, kind |-> NoneOpt,
     labels |-> EmptyMap, number |-> NoneOpt, headers |-> HeaderMapNew, timeout |-> NoneOpt,
     input_file |-> NoneOpt]

\* The loop goes on at index with the locals st, or breaks.
Continue(index, st) == Ok([brk |-> FALSE, index |-> index, st |-> st])
Break(index, st) == Ok([brk |-> TRUE, index |-> index, st |-> st])

\* args.get(index): indices count from 1 here.
Get(al, index) == IF index <= Len(al) THEN Some(al[index]) ELSE NoneOpt

\* "-u" | "--url". url_parse is url::Url::parse followed by Url::as_str, as a
\* function of the string: Ok with the Url's serialization, or Err with the
\* ParseError. The url crate is not part of the repository; the arm is
\* modelled for what the crate returns.
ArmUrl(al, index, st, url_parse) ==
    IF IsSome(st.url) THEN Err("argument -u/--url can only be specified once")
    ELSE IF ~IsSome(Get(al, index + 1))
      THEN Err("-u/--url argument requires a value (Prometheus URL)")
    ELSE LET Set(value) ==
                 IF ~value.ok THEN Err("invalid url '{value}' for argument -u/--url")
                 ELSE Continue(index + 2, [st EXCEPT !.url = Some(value.value)])
         IN Set(url_parse[al[index + 1]])

\* "-h" | "--header", with shifts as in HeaderInsert.
ArmHeader(al, index, st, shifts) ==
    IF ~IsSome(Get(al, index + 1))
      THEN Err("-h/--header argument requires a value (header pair X=Y)")
    ELSE LET pair == SplitOnce(Trim(al[index + 1]), 61)
         IN IF ~IsSome(pair) THEN Err("-h/--header argument requires a key-value pair (X=Y)")
            ELSE LET name  == Trim(Unwrap(pair)[1])
                     val   == Unwrap(pair)[2]
                     key   == ParseHeaderName(name)
                     value == ParseHeaderValue(val)
                     Put(m) == IF ~m.ok THEN m
                               ELSE Continue(index + 2, [st EXCEPT !.headers = m.value])
                 IN IF name = <<>>
                      THEN Err("argument -h/--header requires a non-empty key: '{key}={val}'")
                    ELSE IF ~key.ok THEN Err("argument -h/--header: invalid header name '{name}'")
                    ELSE IF ~value.ok THEN Err("argument -h/--header: invalid header value: '{val}'")
                    ELSE Put(HeaderInsert(st.headers, key.value, value.value, shifts))

\* "--timeout"
ArmTimeout(al, index, st) ==
    IF ~IsSome(Get(al, index + 1))
      THEN Err("--timeout argument requires a value (timeout in seconds)")
    ELSE LET Set(value) ==
                 IF ~value.ok THEN Err("--timeout argument requires a number (timeout in seconds)")
                 ELSE Continue(index + 2, [st EXCEPT !.timeout = Some(value.value)])
         IN Set(ParseU64(Trim(al[index + 1])))

\* "-f" | "--file"
ArmFile(al, index, st) ==
    IF IsSome(st.input_file) THEN Err("argument -f/--file can only be specified once")
    ELSE IF ~IsSome(Get(al, index + 1))
      THEN Err("-i/--input argument requires a value (file path)")
    ELSE Continue(index + 2, [st EXCEPT !.input_file = Some(al[index + 1])])

\* A -n/--name arm that takes a second name in place of the first.
ArmNameAgain(al, index, st) ==
    IF ~IsSome(Get(al, index + 1))
      THEN Err("-n/--name argument requires a value (metric name)")
    ELSE LET value == Trim(al[index + 1])
         IN IF value = <<>> THEN Err("argument -n/--name requires a non-empty value")
            ELSE Continue(index + 2, [st EXCEPT !.name = Some(value)])

\* "-n" | "--name"
ArmName(al, index, st) ==
    IF IsSome(st.name) THEN Err("argument -n/--name can only be specified once")
    ELSE IF ~IsSome(Get(al, index + 1))
      THEN Err("-n/--name argument requires a value (metric name)")
    ELSE LET value == Trim(al[index + 1])
         IN IF value = <<>> THEN Err("argument -n/--name requires a non-empty value")
            ELSE Continue(index + 2, [st EXCEPT !.name = Some(value)])

\* "-t" | "--type"
ArmType(al, index, st) ==
    IF IsSome(st.kind) THEN Err("argument -t/--type can only be specified once")
    ELSE IF ~IsSome(Get(al, index + 1))
      THEN Err("-t/--type argument requires a value (metric type)")
    ELSE LET value == Trim(al[index + 1])
         IN IF value = TypeName.counter
              THEN Continue(index + 2, [st EXCEPT !.kind = Some("Counter")])
            ELSE IF value = TypeName.gauge
              THEN Continue(index + 2, [st EXCEPT !.kind = Some("Gauge")])
            ELSE IF value = TypeName.histogram \/ value = TypeName.summary
              THEN Err("metric type '{value}' is not supported yet")
            ELSE Err("unknown metric type '{other}'")

\* "-v" | "--value"
ArmValue(al, index, st) ==
    IF IsSome(st.number) THEN Err("argument -v/--value can only be specified once")
    ELSE IF ~IsSome(Get(al, index + 1))
      THEN Err("-v/--value argument requires a value (number)")
    ELSE LET Set(v) ==
                 IF ~v.ok THEN Err("-v/--value argument requires a number")
                 ELSE Continue(index + 2, [st EXCEPT !.number = Some(v.value)])
         IN Set(ParseF64(Trim(al[index + 1])))

\* "-l" | "--label"
ArmLabel(al, index, st) ==
    IF ~IsSome(Get(al, index + 1))
      THEN Err("-l/--label argument requires a value (label pair X=Y)")
    ELSE LET pair == SplitOnce(Trim(al[index + 1]), 61)
         IN IF ~IsSome(pair) THEN Err("-l/--label argument requires a key-value pair (X=Y)")
            ELSE LET key == Trim(Unwrap(pair)[1])
                     val == Trim(Unwrap(pair)[2])
                 IN IF key = <<>>
                      THEN Err("argument -l/--label requires a non-empty key: '{key}={val}'")
                    ELSE IF val = <<>>
                      THEN Err("argument -l/--label requires a non-empty value: '{key}={val}'")
                    ELSE Continue(index + 2, [st EXCEPT !.labels = (key :> val) @@ @])

\* One turn of the loop: the match on args[index].
MatchArg(al, index, st, url_parse, shifts) ==
    LET value == al[index]
    IN CASE value = Arg.help -> Break(index, [st EXCEPT !.help = TRUE])
         [] value = Arg.version -> Break(index, [st EXCEPT !.version = TRUE])
         [] value \in {Arg.u, Arg.url} -> ArmUrl(al, index, st, url_parse)
         [] value \in {Arg.h, Arg.header} -> ArmHeader(al, index, st, shifts)
         [] value = Arg.timeout -> ArmTimeout(al, index, st)
         [] value \in {Arg.f, Arg.file} -> ArmFile(al, index, st)
         [] value \in {Arg.n, Arg.name} -> ArmName(al, index, st)
         [] value \in {Arg.t, Arg.type} -> ArmType(al, index, st)
         [] value \in {Arg.v, Arg.value} -> ArmValue(al, index, st)
         [] value \in {Arg.l, Arg.label} -> ArmLabel(al, index, st)
         [] OTHER -> Err("unknown argument '{other}'")

\* while index < args.len(): the locals after the loop, or the first error or
\* panic.
RECURSIVE ParseLoop(_, _, _, _, _)
ParseLoop(al, index, st, url_parse, shifts) ==
    IF index > Len(al) THEN Ok(st)
    ELSE LET Turn(r) ==
                 IF ~r.ok THEN r
                 ELSE IF r.value.brk THEN Ok(r.value.st)
                 ELSE ParseLoop(al, r.value.index, r.value.st, url_parse, shifts)
         IN Turn(MatchArg(al, index, st, url_parse, shifts))

\* A default that does not look at the name.
DefaultKindGauge(name) == "Gauge"

\* The type of a metric given without -t/--type.
DefaultKind(name) == IF EndsWith(name, Str_total) THEN "Counter" ELSE "Gauge"

\* An input that lets labels be given with a file.
ParseInputWithLabels(st) ==
    IF IsSome(st.input_file)
      THEN IF IsSome(st.name) THEN Err("argument -n/--name cannot be used with -f/--file")
           ELSE IF IsSome(st.kind) THEN Err("argument -t/--type cannot be used with -f/--file")
           ELSE IF IsSome(st.number) THEN Err("argument -v/--value cannot be used with -f/--file")
           ELSE Ok(File(Unwrap(st.input_file)))
      ELSE IF ~IsSome(st.name) THEN Err("missing required argument -n/--name")
           ELSE IF ~IsSome(st.number) THEN Err("missing required argument -v/--value")
           ELSE Ok(Metric(Unwrap(st.name),
                          IF IsSome(st.kind) THEN Unwrap(st.kind) ELSE DefaultKind(Unwrap(st.name)),
                          st.labels,
                          Unwrap(st.number)))

\* An input that takes a metric without a value as the value 0.
ParseInputValueOptional(st) ==
    IF IsSome(st.input_file)
      THEN IF IsSome(st.name) THEN Err("argument -n/--name cannot be used with -f/--file")
           ELSE IF IsSome(st.kind) THEN Err("argument -t/--type cannot be used with -f/--file")
           ELSE IF IsSome(st.number) THEN Err("argument -v/--value cannot be used with -f/--file")
           ELSE IF DOMAIN st.labels # {}
             THEN Err("argument -l/--label cannot be used with -f/--file")
           ELSE Ok(File(Unwrap(st.input_file)))
      ELSE IF ~IsSome(st.name) THEN Err("missing required argument -n/--name")
           ELSE Ok(Metric(Unwrap(st.name),
                          IF IsSome(st.kind) THEN Unwrap(st.kind) ELSE DefaultKind(Unwrap(st.name)),
                          st.labels,
                          IF IsSome(st.number) THEN Unwrap(st.number) ELSE 0))

\* The input of a run: the file, or the metric given by hand.
ParseInput(st) ==
    IF IsSome(st.input_file)
      THEN IF IsSome(st.name) THEN Err("argument -n/--name cannot be used with -f/--file")
           ELSE IF IsSome(st.kind) THEN Err("argument -t/--type cannot be used with -f/--file")
           ELSE IF IsSome(st.number) THEN Err("argument -v/--value cannot be used with -f/--file")
           ELSE IF DOMAIN st.labels # {}
             THEN Err("argument -l/--label cannot be used with -f/--file")
           ELSE Ok(File(Unwrap(st.input_file)))
      ELSE IF ~IsSome(st.name) THEN Err("missing required argument -n/--name")
           ELSE IF ~IsSome(st.number) THEN Err("missing required argument -v/--value")
           ELSE Ok(Metric(Unwrap(st.name),
                          IF IsSome(st.kind) THEN Unwrap(st.kind) ELSE DefaultKind(Unwrap(st.name)),
                          st.labels,
                          Unwrap(st.number)))

\* What Cmd::parse returns after the loop. The headers of Args are the map the
\* loop filled; nothing is inserted into it any more, it is iterated and
\* compared, which read its entries.
ParseEnd(st) ==
    IF st.help THEN Ok(CmdHelp)
    ELSE IF st.version THEN Ok(CmdVersion)
    ELSE IF ~IsSome(st.url) THEN Err("missing required argument -u/--url")
    ELSE LET input == ParseInput(st)
         IN IF ~input.ok THEN input
            ELSE Ok(CmdRun([url |-> Unwrap(st.url), headers |-> st.headers.entries,
                            timeout |-> st.timeout, input |-> input.value]))

\* Cmd::parse, with url_parse as in ArmUrl and shifts as in HeaderInsert.
Parse(al, url_parse, shifts) ==
    LET AfterLoop(r) == IF ~r.ok THEN r ELSE ParseEnd(r.value)
    IN AfterLoop(ParseLoop(al, 1, ParseStart, url_parse, shifts))

-----------------------------------------------------------------------------
(* Args::build_write_request and Args::build_http_req *)

\* The Results from_text_format can return for a text with the samples ss.
FromTextFormatResults(ss) ==
    UNION {LET r == SamplesToTimeseries(ss, orders)
           IN IF r.ok THEN {Finish(collected) : collected \in IntoValues(r.value)}
              ELSE {Err(r.err)}
           : orders \in LabelOrders(ss)}

\* The time of the sample, main.rs:410-415: now is what
\* SystemTime::now().duration_since(UNIX_EPOCH) gives, an Err when the clock is
\* before 1970, else the Duration, whose as_millis() is a u128 written here in
\* decimal digits. unwrap() panics on the Err, expect() on milliseconds above
\* i64::MAX; else the i64.
TimeMillis(now) ==
    LET I64_MAX == <<57, 50, 50, 51, 51, 55, 50, 48, 51, 54, 56, 53, 52, 55, 55, 53, 56, 48, 55>>
    IN IF ~now.ok
         THEN [ok |-> FALSE, panic |-> TRUE,
               err |-> "called Result::unwrap() on an Err value: SystemTimeError(..)"]
       ELSE IF Len(now.value) > 19 \/ (Len(now.value) = 19 /\ StrCmp(now.value, I64_MAX) > 0)
         THEN [ok |-> FALSE, panic |-> TRUE,
               err |-> "timestamp is too large: TryFromIntError(())"]
       ELSE Ok(Decimal(now.value))

\* Args::build_write_request: the Results it can return, or the panic. A metric
\* given by hand makes one series at the current time (times are the readings
\* of the clock). A file is read (texts are the contents it may have, as parsed
\* samples) and handed to from_text_format; the path "-" is standard input,
\* whose read error comes back as it is, without the context of a file's:
\* {err} is that io::Error, whichever it is.
ArgsBuildWriteRequest(a, texts, times) ==
    IF a.input.file
      THEN (IF a.input.path = <<45>>
              THEN {Err("{err}")}
              ELSE {Err("could not read file '{path}'")})
           \cup UNION {{IF r.ok THEN r
                        ELSE Err("could not parse input as Prometheus text format: {err}")
                        : r \in FromTextFormatResults(ss)} : ss \in texts}
      ELSE LET Build(time) ==
                   IF ~time.ok THEN {time}
                   ELSE {Ok(BuildWriteRequest(a.input, order, time.value)) :
                            order \in HashMapIter(a.input.labels)}
           IN UNION {Build(TimeMillis(now)) : now \in times}

\* A merge that appends the caller's headers and leaves the fixed ones in place.
MergeHeadersAppend(fixed, headers, i, shifts) ==
    Ok([fixed EXCEPT !.entries = @ \o SubSeq(headers, i, Len(headers))])

\* The loop over self.headers from entry i on: each is inserted into the
\* request's map; the map when the loop is done, or the panic of an insert.
RECURSIVE MergeHeaders(_, _, _, _)
MergeHeaders(fixed, headers, i, shifts) ==
    IF i > Len(headers) THEN Ok(fixed)
    ELSE LET Rest(m) == IF ~m.ok THEN m ELSE MergeHeaders(m.value, headers, i + 1, shifts)
         IN Rest(HeaderInsert(fixed, headers[i][1], headers[i][2], shifts))

\* Args::build_http_req once build_write_request returned the request wr: the
\* error of build_http_request in a context, or its request with the caller's
\* headers merged in, or the panic of the merge; shifts as in HeaderInsert.
ArgsBuildHttpReq(a, wr, user_agent, shifts) ==
    LET Insert(h) ==
            LET Put(m) ==
                    IF ~m.ok THEN m ELSE Ok([h.value EXCEPT !.headers = m.value.entries])
            IN IF ~h.ok THEN Err("could not build HTTP request: {err}")
               ELSE Put(MergeHeaders(HeaderMapOf(h.value.headers), a.headers, 1, shifts))
    IN Insert(BuildHttpRequest(wr, a.url, user_agent))

\* "prom-write/"
Str_prom_write == <<112, 114, 111, 109, 45, 119, 114, 105, 116, 101, 47>>
\* env!("CARGO_PKG_VERSION"), here "0.1.0"
CrateVersion == <<48, 46, 49, 46, 48>>

\* format!("prom-write/{}", crate_version())
UserAgent == Str_prom_write \o CrateVersion

-----------------------------------------------------------------------------
(* Inputs *)

\* Short names and values: "a", "b", "x", "y", "1", "2", "1y=2".
Text ==
    [ a |-> <<97>>, b |-> <<98>>, x |-> <<120>>, y |-> <<121>>,
      n1 |-> <<49>>, n2 |-> <<50>>, n1y2 |-> <<49, 121, 61, 50>> ]

\* Label maps of the parsed samples: none, {x="1",y="2"}, {x="1y=2"}, {__name__="b"}.
LabelMaps ==
    { EmptyMap,
      (Text.x :> Text.n1) @@ (Text.y :> Text.n2),
      (Text.x :> Text.n1y2),
      (LABEL_NAME :> Text.b) }

\* The samples a parsed text is made of: the metrics a and b, with values and
\* timestamps that tie, repeat and come out of order, and every kind of value.
ParsedSamples ==
    { Obs(Text.a, EmptyMap, "Gauge", F64(1), 1),
      Obs(Text.a, EmptyMap, "Gauge", F64(2), 1),
      Obs(Text.a, (Text.x :> Text.n1) @@ (Text.y :> Text.n2), "Gauge", F64(1), 1),
      Obs(Text.a, (Text.x :> Text.n1) @@ (Text.y :> Text.n2), "Gauge", F64(1), 2),
      Obs(Text.a, (Text.x :> Text.n1y2), "Gauge", F64(1), 1),
      Obs(Text.a, (LABEL_NAME :> Text.b), "Gauge", F64(1), 1),
      Obs(Text.b, EmptyMap, "Counter", F64(1), 1),
      Obs(Text.b, EmptyMap, "Untyped", F64(2), 2),
      Obs(Text.b, EmptyMap, "Histogram", F64(0), 1),
      Obs(Text.a, EmptyMap, "Summary", F64(0), 1) }

Inputs == UNION {[1..n -> ParsedSamples] : n \in 0..MaxSamples}

\* WriteRequest values a caller of the library builds directly: labels and
\* samples in any order, empty strings, zero and negative timestamps.
CallerLabels ==
    { <<>>,
      <<Label(LABEL_NAME, Text.a)>>,
      <<Label(LABEL_NAME, Text.b)>>,
      <<Label(Text.x, Text.n1), Label(LABEL_NAME, Text.a)>>,
      <<Label(Text.y, <<>>), Label(Text.x, Text.n2), Label(LABEL_NAME, Text.b)>> }

CallerSamples ==
    { <<>>,
      <<Sample(F64(1), 1)>>,
      <<Sample(F64(0), 0)>>,
      <<Sample(F64(3), -1)>>,
      <<Sample(F64(1), 2), Sample(F64(2), 1)>>,
      <<Sample(F64(1), 300), Sample(F64(2), 1), Sample(F64(5), 1)>> }

CallerSeries == {TimeSeries(l, ss) : l \in CallerLabels, ss \in CallerSamples}

CallerRequests == {WriteRequest(ts) : ts \in UNION {[1..n -> CallerSeries] : n \in 0..MaxSeries}}

\* MetricOrFile::Metric values of the CLI: name, labels (a HashMap), value.
MetricInputs ==
    {[name |-> n, labels |-> l, value |-> v] : n \in {Text.a, Text.b}, l \in LabelMaps, v \in {F64(0), F64(1)}}

\* SystemTime::now().duration_since(UNIX_EPOCH): a clock set before 1970, 1 ms
\* and 2 ms after the epoch, and 9.3e15 s after it (9300000000000000000 ms).
Times == { Err("second time provided was later than self"),
           Ok(<<49>>),
           Ok(<<50>>),
           Ok(<<57, 51, 48, 48, 48, 48, 48, 48, 48, 48, 48, 48, 48, 48, 48, 48, 48, 48, 48>>) }

\* url::Url values, as Url::as_str gives them: "http://h/w", "http://h/",
\* "http://h/w#f", "foo://h?q#f", "file:///x", "x://", and four that have no
\* "//" after the scheme: "a:", "mailto:x@y", "a:b/c", "a:b#f".
Endpoints == { <<104, 116, 116, 112, 58, 47, 47, 104, 47, 119>>,
               <<104, 116, 116, 112, 58, 47, 47, 104, 47>>,
               <<104, 116, 116, 112, 58, 47, 47, 104, 47, 119, 35, 102>>,
               <<102, 111, 111, 58, 47, 47, 104, 63, 113, 35, 102>>,
               <<102, 105, 108, 101, 58, 47, 47, 47, 120>>,
               <<120, 58, 47, 47>>,
               <<97, 58>>,
               <<109, 97, 105, 108, 116, 111, 58, 120, 64, 121>>,
               <<97, 58, 98, 47, 99>>,
               <<97, 58, 98, 35, 102>> }

\* "pw/1", "pw/2", and "pw" followed by a line feed, which no header value may hold.
UserAgents == { <<112, 119, 47, 49>>, <<112, 119, 47, 50>>, <<112, 119, 10>> }

\* Samples of one series whose timestamps tie and come out of order, with a
\* series of two labels and another metric besides.
TiedSamples ==
    { Obs(Text.a, EmptyMap, "Gauge", F64(3), 2),
      Obs(Text.a, EmptyMap, "Gauge", F64(2), 1),
      Obs(Text.a, EmptyMap, "Gauge", F64(1), 1),
      Obs(Text.a, (Text.x :> Text.n1) @@ (Text.y :> Text.n2), "Counter", F64(1), 1),
      Obs(Text.b, EmptyMap, "Untyped", F64(1), 1) }

TiedInputs == UNION {[1..n -> TiedSamples] : n \in 0..MaxSamples}

\* Argument lists of the CLI.

\* The strings of the example invocations of the usage text: the URL
\* http://localhost:9090/api/v1/write, "-", "metrics.txt", "requests",
\* "requests_total", "method=GET", "path=/api/v1/write", "instance=localhost".
Usage ==
    [ url |-> <<104, 116, 116, 112, 58, 47, 47, 108, 111, 99, 97, 108, 104, 111, 115, 116,
                58, 57, 48, 57, 48, 47, 97, 112, 105, 47, 118, 49, 47, 119, 114, 105, 116, 101>>,
      stdin |-> <<45>>,
      file |-> <<109, 101, 116, 114, 105, 99, 115, 46, 116, 120, 116>>,
      requests |-> <<114, 101, 113, 117, 101, 115, 116, 115>>,
      requests_total |->
          <<114, 101, 113, 117, 101, 115, 116, 115, 95, 116, 111, 116, 97, 108>>,
      method |-> <<109, 101, 116, 104, 111, 100, 61, 71, 69, 84>>,
      path |->
          <<112, 97, 116, 104, 61, 47, 97, 112, 105, 47, 118, 49, 47, 119, 114, 105, 116, 101>>,
      instance |->
          <<105, 110, 115, 116, 97, 110, 99, 101, 61, 108, 111, 99, 97, 108, 104, 111, 115, 116>> ]

\* Other strings given as arguments and values: "--unknown", "http://h/w",
\* "HTTP://H", "h/w", "m", " b_total ", " ", "0", "5", "11", "x=1", "y=2",
\* "Content-Type=t", "a=1", "a=a123", "user-agent=me", " gauge ", "timer".
Given ==
    [ unknown |-> <<45, 45, 117, 110, 107, 110, 111, 119, 110>>,
      url |-> <<104, 116, 116, 112, 58, 47, 47, 104, 47, 119>>,
      url_no_path |-> <<72, 84, 84, 80, 58, 47, 47, 72>>,
      url_relative |-> <<104, 47, 119>>,
      gauge_spaced |-> <<32, 103, 97, 117, 103, 101, 32>>,
      type_other |-> <<116, 105, 109, 101, 114>>,
      file |-> <<109>>,
      name_total |-> <<32, 98, 95, 116, 111, 116, 97, 108, 32>>,
      blank |-> <<32>>,
      zero |-> <<48>>,
      five |-> <<53>>,
      eleven |-> <<49, 49>>,
      x1 |-> <<120, 61, 49>>,
      y2 |-> <<121, 61, 50>>,
      content_type |-> <<67, 111, 110, 116, 101, 110, 116, 45, 84, 121, 112, 101, 61, 116>>,
      a1 |-> <<97, 61, 49>>,
      a123 |-> <<97, 61, 97, 49, 50, 51>>,
      user_agent |-> <<117, 115, 101, 114, 45, 97, 103, 101, 110, 116, 61, 109, 101>> ]

\* What url::Url::parse, followed by Url::as_str, returns for the strings the
\* argument lists give as URLs: the URL as it is written again, with the scheme
\* and the host in lower case and the path "/" where there was none, or the
\* ParseError of a string without a scheme.
UrlParse ==
    (Given.url :> Ok(Given.url))
    @@ (Given.url_no_path :> Ok(<<104, 116, 116, 112, 58, 47, 47, 104, 47>>))
    @@ (Usage.url :> Ok(Usage.url))
    @@ (Given.url_relative :> Err("relative URL without a base"))

\* Whether an insert into a HeaderMap moved DISPLACEMENT_THRESHOLD entries or
\* more, for the names the map then holds: the argument lists give fewer
\* headers than that, so no map of theirs is looked up and there is no row.
Shifts == [names \in {} |-> FALSE]

\* Longest argument list drawn from ArgItems, in items.
MaxItems == 3

\* An argument with its value, or an argument alone.
ArgItems ==
    { <<Arg.help>>, <<Arg.version>>, <<Arg.h>>, <<Given.unknown>>,
      <<Arg.u, Given.url>>, <<Arg.url, Given.url_no_path>>, <<Arg.u, Given.url_relative>>,
      <<Arg.f, Given.file>>, <<Arg.file, Usage.stdin>>,
      <<Arg.n, Text.a>>, <<Arg.name, Given.name_total>>, <<Arg.n, Given.blank>>,
      <<Arg.t, TypeName.counter>>, <<Arg.type, TypeName.gauge>>, <<Arg.t, TypeName.histogram>>,
      <<Arg.type, TypeName.summary>>, <<Arg.t, Given.type_other>>,
      <<Arg.v, Given.zero>>, <<Arg.value, Text.n1>>,
      <<Arg.l, Given.x1>>, <<Arg.label, Given.y2>>,
      <<Arg.h, Given.content_type>>, <<Arg.header, Given.a1>>,
      <<Arg.timeout, Given.five>> }

\* The lists made of n items.
RECURSIVE ItemLists(_)
ItemLists(n) ==
    IF n = 0 THEN {<<>>} ELSE {item \o rest : item \in ArgItems, rest \in ItemLists(n - 1)}

\* The example invocations of the usage text.
UsageExamples ==
    { <<Arg.url, Usage.url, Arg.name, Usage.requests, Arg.value, Text.n1>>,
      <<Arg.url, Usage.url, Arg.n, Usage.requests_total, Arg.v, Text.n1>>,
      <<Arg.url, Usage.url, Arg.n, Usage.requests, Arg.t, TypeName.counter, Arg.v, Text.n1>>,
      <<Arg.url, Usage.url, Arg.n, Usage.requests, Arg.v, Text.n1,
        Arg.label, Usage.method, Arg.l, Usage.path>>,
      <<Arg.url, Usage.url, Arg.file, Usage.file, Arg.l, Usage.instance>>,
      <<Arg.url, Usage.url, Arg.f, Usage.stdin>> }

\* Longer lists: a file with two headers and a timeout (as in
\* test_parse_args_file_full_short); a metric with labels and headers, two of
\* them fixed headers; a file with two timeouts and a header given twice.
LongArgLists ==
    { <<Arg.u, Given.url, Arg.f, Given.file, Arg.h, Given.a123, Arg.timeout, Given.eleven,
        Arg.header, Given.y2>>,
      <<Arg.u, Given.url, Arg.n, Text.a, Arg.v, Given.zero, Arg.l, Given.x1, Arg.label, Given.y2,
        Arg.h, Given.content_type, Arg.header, Given.a1, Arg.h, Given.user_agent>>,
      <<Arg.u, Given.url, Arg.timeout, Given.five, Arg.timeout, Given.eleven, Arg.f, Given.file,
        Arg.h, Given.a1, Arg.h, Given.content_type, Arg.header, Given.a123>> }

\* A URL and three items among names, types and a value: the lists of a metric
\* given by hand with each type string, in every order.
TypedLists ==
    LET items == { <<Arg.n, Text.a>>, <<Arg.name, Given.name_total>>, <<Arg.v, Given.zero>>,
                   <<Arg.t, TypeName.counter>>, <<Arg.type, TypeName.gauge>>,
                   <<Arg.t, Given.gauge_spaced>>, <<Arg.t, TypeName.histogram>>,
                   <<Arg.type, TypeName.summary>>, <<Arg.t, Given.type_other>> }
    IN {<<Arg.u, Given.url>> \o x \o y \o z : x \in items, y \in items, z \in items}

ArgLists ==
    UNION {ItemLists(n) : n \in 0..MaxItems} \cup UsageExamples \cup LongArgLists \cup TypedLists

\* What a file given with -f/--file may hold, as parsed samples: nothing, one
\* gauge, a histogram.
FileTexts ==
    { <<>>,
      <<Obs(Text.a, EmptyMap, "Gauge", F64(0), 1)>>,
      <<Obs(Text.a, (Text.x :> Text.n1), "Counter", F64(0), 2)>>,
      <<Obs(Text.b, EmptyMap, "Histogram", F64(0), 1)>> }

-----------------------------------------------------------------------------
(* Actions *)

Blank ==
    /\ calls = 0
    /\ groups = None
    /\ result = None
    /\ first = None
    /\ sorts = 0
    /\ once = None
    /\ sent = None
    /\ wire = <<>>
    /\ http = None
    /\ cmd = None
    /\ out = None

\* A text is parsed: its samples are the input of from_text_format.
InitText == argv = <<>> /\ source = "text" /\ samples \in Inputs /\ args = None /\ req = None /\ Blank

\* The CLI was given a metric by hand.
InitMetric == argv = <<>> /\ source = "metric" /\ samples = <<>> /\ args \in MetricInputs /\ req = None /\ Blank

\* A caller of the library built a WriteRequest itself.
InitCaller == argv = <<>> /\ source = "caller" /\ samples = <<>> /\ args = None /\ req \in CallerRequests /\ Blank


\* WriteRequest::from_text_format on the same text, called at most twice.
FromTextFormat ==
    /\ source = "text"
    /\ calls < 2
    /\ sorts = 0
    /\ sent = None
    /\ \E orders \in LabelOrders(samples) :
         LET r == SamplesToTimeseries(samples, orders)
         IN IF r.ok
              THEN \E collected \in IntoValues(r.value) :
                     LET res == Finish(collected)
                     IN /\ groups' = r.value
                        /\ result' = res
                        /\ first' = IF calls = 0 THEN res ELSE first
                        /\ req' = IF res.ok THEN res.value ELSE None
              ELSE /\ groups' = None
                   /\ result' = Err(r.err)
                   /\ first' = IF calls = 0 THEN Err(r.err) ELSE first
                   /\ req' = None
    /\ calls' = calls + 1
    /\ UNCHANGED <<cli, source, samples, args, sorts, once, sent, wire, http>>

\* Args::build_write_request for MetricOrFile::Metric: the request, or the
\* panic of the clock's reading.
BuildMetricRequest ==
    /\ source = "metric"
    /\ req = None
    /\ out = None
    /\ \E order \in HashMapIter(args.labels), now \in Times :
         LET Build(time) ==
                 IF time.ok
                   THEN req' = BuildWriteRequest(args, order, time.value) /\ out' = out
                   ELSE req' = req /\ out' = time
         IN Build(TimeMillis(now))
    /\ UNCHANGED <<argv, cmd, source, samples, calls, groups, result, first, args, sorts, once,
                   sent, wire, http>>

\* WriteRequest::sort on the request held.
SortRequest ==
    /\ req # None
    /\ sent = None
    /\ sorts < 2
    /\ req' = Sort(req)
    /\ sorts' = sorts + 1
    /\ once' = IF sorts = 0 THEN Sort(req) ELSE once
    /\ UNCHANGED <<cli, source, samples, calls, groups, result, first, args, sent, wire, http>>

\* TimeSeries::sort_labels_and_samples on one series of the request held.
SortOneSeries ==
    /\ req # None
    /\ sent = None
    /\ \E i \in DOMAIN req.timeseries :
         req' = WriteRequest([req.timeseries EXCEPT ![i] = SortLabelsAndSamples(@)])
    /\ UNCHANGED <<cli, source, samples, calls, groups, result, first, args, sorts, once, sent,
                   wire, http>>

\* WriteRequest::encode_proto3 on the request held.
EncodeRequest ==
    /\ req # None
    /\ sent = None
    /\ sent' = Sorted(req)
    /\ wire' = EncodeProto3(req)
    /\ UNCHANGED <<cli, source, samples, calls, groups, result, first, args, req, sorts, once, http>>

\* WriteRequest::build_http_request on the request held; it encodes the request
\* (encode_compressed, encode_proto3) on its way.
BuildRequest ==
    /\ req # None
    /\ sent = None
    /\ \E endpoint \in Endpoints, user_agent \in UserAgents :
         http' = [endpoint |-> endpoint, user_agent |-> user_agent,
                  result |-> BuildHttpRequest(req, endpoint, user_agent)]
    /\ sent' = Sorted(req)
    /\ wire' = EncodeProto3(req)
    /\ UNCHANGED <<cli, source, samples, calls, groups, result, first, args, req, sorts, once>>

\* The CLI was started with an argument list.
InitCli ==
    /\ source = "cli"
    /\ argv \in ArgLists
    /\ samples = <<>>
    /\ args = None
    /\ req = None
    /\ Blank

\* run: Cmd::parse(&args), with what url::Url::parse returns for the URLs given
\* and what the inserts of HeaderMap move.
ParseArgs ==
    /\ source = "cli"
    /\ cmd = None
    /\ cmd' = Parse(argv, UrlParse, Shifts)
    /\ UNCHANGED <<argv, out, source, samples, calls, groups, result, first, args, req,
                   sorts, once, sent, wire, http>>

\* Cmd::run for Cmd::Run(args): args.build_http_req(&user_agent). The request
\* it builds is encoded on the way, as in build_http_request.
BuildHttpReq ==
    /\ source = "cli"
    /\ cmd # None
    /\ cmd.ok
    /\ cmd.value.cmd = "Run"
    /\ out = None
    /\ \E wr \in ArgsBuildWriteRequest(cmd.value.args, FileTexts, Times) :
         IF ~wr.ok
           THEN /\ out' = wr
                /\ UNCHANGED <<req, sent, wire, http>>
           ELSE /\ req' = wr.value
                /\ sent' = Sorted(wr.value)
                /\ wire' = EncodeProto3(wr.value)
                /\ http' = [endpoint |-> cmd.value.args.url, user_agent |-> UserAgent,
                            result |-> BuildHttpRequest(wr.value, cmd.value.args.url, UserAgent)]
                /\ out' = ArgsBuildHttpReq(cmd.value.args, wr.value, UserAgent, Shifts)
    /\ UNCHANGED <<argv, cmd, source, samples, calls, groups, result, first, args, sorts, once>>

\* The library and the CLI making a WriteRequest.
NextParse == FromTextFormat \/ BuildMetricRequest

\* A caller sorting, encoding and wrapping the WriteRequest it holds.
NextSend == SortRequest \/ SortOneSeries \/ EncodeRequest \/ BuildRequest

\* The CLI parsing its arguments and building the request to send.
NextCli == ParseArgs \/ BuildHttpReq

Next == NextParse \/ NextSend \/ NextCli

Init == InitText \/ InitMetric \/ InitCaller \/ InitCli

Spec == Init /\ [][Next]_vars

\* Making a WriteRequest from a text or from the CLI's metric.
InitParse == InitText \/ InitMetric

SpecParse == InitParse /\ [][NextParse]_vars

\* Sending a WriteRequest a caller built.
SpecSend == InitCaller /\ [][NextSend]_vars

\* The CLI started with an argument list.
SpecCli == InitCli /\ [][NextCli]_vars

\* A text whose timestamps tie is parsed, and the request sorted again.
InitTies ==
    /\ argv = <<>>
    /\ source = "text"
    /\ samples \in TiedInputs
    /\ args = None
    /\ req = None
    /\ Blank

NextTies == FromTextFormat \/ SortRequest

SpecTies == InitTies /\ [][NextTies]_vars

-----------------------------------------------------------------------------
(* Properties of from_text_format and build_write_request *)

\* A from_text_format call has returned Ok.
Parsed == source = "text" /\ calls > 0 /\ result.ok

\* The identity of an observation: its metric name and its label set.
Identity(s) == <<s.metric, s.labels>>

\* The key of all_series under which an observation is put.
IdentOf(s) == Ident(s, SortedPairs(s, CHOOSE o \in HashMapIter(s.labels) : TRUE))

Count(seq, x) == Cardinality({i \in DOMAIN seq : seq[i] = x})

\* The labels of the series are those of the observation and its name label,
\* each once, and no other.
CarriesLabelsOf(series, s) ==
    /\ Len(series.labels) = Cardinality(DOMAIN s.labels) + 1
    /\ Count(series.labels, Label(LABEL_NAME, s.metric)) =
          1 + (IF LABEL_NAME \in DOMAIN s.labels /\ s.labels[LABEL_NAME] = s.metric THEN 1 ELSE 0)
    /\ \A k \in DOMAIN s.labels : Count(series.labels, Label(k, s.labels[k])) >= 1

\* C1: from_text_format never merges observations of different identity: two
\* observations whose metric name or label set differs are put in two different
\* series, and the series an observation is put in carries exactly its labels.
C1_NeverMerges ==
    Parsed =>
        \A i, j \in DOMAIN samples :
            /\ CarriesLabelsOf(groups[IdentOf(samples[i])], samples[i])
            /\ Identity(samples[i]) # Identity(samples[j])
                 => IdentOf(samples[i]) # IdentOf(samples[j])

\* C2: from_text_format never splits a series: for the n observations of one
\* identity the result holds exactly one series with that identity's labels, and
\* that series has exactly n samples, one (value, timestamp) per observation.
C2_NeverSplits ==
    Parsed =>
        \A i \in DOMAIN samples :
            LET ts   == result.value.timeseries
                same == {j \in DOMAIN samples : Identity(samples[j]) = Identity(samples[i])}
                mine == {k \in DOMAIN ts : CarriesLabelsOf(ts[k], samples[i])}
            IN /\ Cardinality(mine) = 1
               /\ \A k \in mine :
                    /\ Len(ts[k].samples) = Cardinality(same)
                    /\ \A j \in same :
                         Count(ts[k].samples, Sample(samples[j].value, samples[j].timestamp))
                           = Cardinality({h \in same :
                                 /\ samples[h].value = samples[j].value
                                 /\ samples[h].timestamp = samples[j].timestamp})

\* C3: two calls of from_text_format on the same text return the same
\* WriteRequest, the series in the same positions.
C3_SameResult == (source = "text" /\ calls = 2) => result = first

LabelsNonDecreasing(series) ==
    \A i \in 1..(Len(series.labels) - 1) :
        StrCmp(series.labels[i].name, series.labels[i + 1].name) <= 0

SamplesNonDecreasing(series) ==
    \A i \in 1..(Len(series.samples) - 1) :
        series.samples[i].timestamp <= series.samples[i + 1].timestamp

HasName(series) == \E i \in DOMAIN series.labels : series.labels[i].name = LABEL_NAME

\* By the value of the __name__ label, the one a lookup by name finds.
SeriesNonDecreasing(r) ==
    \A i \in 1..(Len(r.timeseries) - 1) :
        StrCmp(NameOf(r.timeseries[i]), NameOf(r.timeseries[i + 1])) <= 0

\* C4: in every WriteRequest from_text_format returns, the labels of each series
\* are non-decreasing by name, its samples are non-decreasing by timestamp, and
\* the series are non-decreasing by the value of their __name__ label.
C4_Ordered ==
    Parsed =>
        /\ \A k \in DOMAIN result.value.timeseries :
             /\ LabelsNonDecreasing(result.value.timeseries[k])
             /\ SamplesNonDecreasing(result.value.timeseries[k])
        /\ SeriesNonDecreasing(result.value)

\* A text of three samples was parsed: two metrics, one series with three labels
\* whose two samples came with the later timestamp first.
C4_Witness ==
    /\ Parsed
    /\ Len(samples) = 3
    /\ Len(result.value.timeseries) = 2
    /\ NameOf(result.value.timeseries[1]) # NameOf(result.value.timeseries[2])
    /\ \E i, j \in DOMAIN samples :
         /\ i < j
         /\ Identity(samples[i]) = Identity(samples[j])
         /\ Cardinality(DOMAIN samples[i].labels) = 2
         /\ samples[i].timestamp > samples[j].timestamp

\* C6: in every series from_text_format and build_write_request produce the label
\* names are pairwise distinct; a label given with the key __name__ is overwritten,
\* so the only __name__ label has the metric name as its value.
C6_UniqueNames ==
    (source \in {"text", "metric"} /\ req # None) =>
        /\ \A k \in DOMAIN req.timeseries :
             \A i, j \in DOMAIN req.timeseries[k].labels :
                 i # j => req.timeseries[k].labels[i].name # req.timeseries[k].labels[j].name
        /\ source = "metric" =>
             \A l \in {req.timeseries[1].labels[i] : i \in DOMAIN req.timeseries[1].labels} :
                 l.name = LABEL_NAME => l.value = args.name
        /\ source = "text" =>
             \A i \in DOMAIN samples :
                 \A l \in {groups[IdentOf(samples[i])].labels[h] :
                              h \in DOMAIN groups[IdentOf(samples[i])].labels} :
                     l.name = LABEL_NAME => l.value = samples[i].metric

Unsupported(s) == s.kind \in {"Histogram", "Summary"}

\* C7: when the parsed text holds a histogram or a summary sample, wherever it
\* is, from_text_format returns an error that names the kind of the first such
\* sample, and no WriteRequest.
C7_Rejects ==
    (source = "text" /\ calls > 0 /\ \E i \in DOMAIN samples : Unsupported(samples[i])) =>
        LET i == Min({h \in DOMAIN samples : Unsupported(samples[h])})
        IN /\ ~result.ok
           /\ result.err = (IF samples[i].kind = "Histogram"
                              THEN "histogram not supported yet"
                              ELSE "summary not supported yet")
           /\ req = None

\* A histogram came last, after two supported samples, and the call failed.
C7_Witness ==
    /\ source = "text"
    /\ calls > 0
    /\ Len(samples) = 3
    /\ ~Unsupported(samples[1])
    /\ ~Unsupported(samples[2])
    /\ samples[3].kind = "Histogram"
    /\ ~result.ok

-----------------------------------------------------------------------------
(* Properties of sort, encode_proto3 and build_http_request *)

\* A request was handed to the encoder.
Encoded == sent # None

\* C5: the request that encode_proto3, encode_compressed and build_http_request
\* serialize has, whatever the caller built, its series ascending by the value of
\* their __name__ label, the labels of each series sorted by name and its
\* samples sorted by timestamp.
C5_SentOrdered ==
    (Encoded /\ \A k \in DOMAIN sent.timeseries : HasName(sent.timeseries[k])) =>
        /\ \A k \in DOMAIN sent.timeseries :
             /\ LabelsNonDecreasing(sent.timeseries[k])
             /\ SamplesNonDecreasing(sent.timeseries[k])
        /\ SeriesNonDecreasing(sent)

\* C8: sorting is idempotent: a second sort() leaves the request as the first
\* left it, and encode_proto3, which sorts once more, encodes a sorted request
\* to the bytes of that request as it is.
C8_Idempotent ==
    /\ sorts = 2 => req = once
    /\ (sorts >= 1 /\ Encoded) => (sent = once /\ wire = EncodeToVec(once))

\* A request with three labels and three samples out of order, two of them of
\* one timestamp, was sorted twice and then encoded.
C8_Witness ==
    /\ sorts = 2
    /\ Encoded
    /\ \E k \in DOMAIN once.timeseries :
         /\ Len(once.timeseries[k].labels) = 3
         /\ Len(once.timeseries[k].samples) = 3

(* A reader of the wire format, written from the layout alone. *)

\* The index of the last byte of the varint that starts at p.
RECURSIVE VarintEnd(_, _)
VarintEnd(b, p) == IF b[p] < 128 THEN p ELSE VarintEnd(b, p + 1)

\* The number held by k base-128 groups from p on.
RECURSIVE GroupsValue(_, _, _)
GroupsValue(b, p, k) ==
    IF k = 0 THEN 0 ELSE (b[p] % 128) + 128 * GroupsValue(b, p + 1, k - 1)

\* The signed 64-bit value of the varint in b[p..e]: up to four groups, or the
\* ten bytes of a negative number above -2^28.
VarintValue(b, p, e) ==
    IF e - p + 1 = 10 THEN GroupsValue(b, p, 4) - 128 * 128 * 128 * 128
    ELSE GroupsValue(b, p, e - p + 1)

\* The fields of a message: number, wire type, and the varint's value or the bytes.
RECURSIVE Fields(_, _)
Fields(b, p) ==
    IF p > Len(b) THEN <<>>
    ELSE LET field == b[p] \div 8
             wt    == b[p] % 8
         IN CASE wt = 0 ->
                   LET e == VarintEnd(b, p + 1)
                   IN <<[field |-> field, wt |-> wt, int |-> VarintValue(b, p + 1, e), bytes |-> <<>>]>>
                      \o Fields(b, e + 1)
              [] wt = 1 ->
                   <<[field |-> field, wt |-> wt, int |-> 0, bytes |-> SubSeq(b, p + 1, p + 8)]>>
                   \o Fields(b, p + 9)
              [] wt = 2 ->
                   LET e == VarintEnd(b, p + 1)
                       n == VarintValue(b, p + 1, e)
                   IN <<[field |-> field, wt |-> wt, int |-> 0, bytes |-> SubSeq(b, e + 1, e + n)]>>
                      \o Fields(b, e + n + 1)

\* The last field numbered f, or the default.
LastField(fs, f, default) ==
    LET at == {i \in DOMAIN fs : fs[i].field = f}
    IN IF at = {} THEN default ELSE fs[CHOOSE i \in at : \A j \in at : j <= i]

\* The f64 whose little-endian binary64 the bytes are.
F64Value(b) == [j \in 1..8 |-> b[9 - j]]

\* The signed value of eight little-endian bytes, between -2^24 and 2^24.
Fixed64Value(b) ==
    LET low == b[1] + 256 * b[2] + 65536 * b[3]
    IN IF SubSeq(b, 4, 8) = <<0, 0, 0, 0, 0>> THEN low
       ELSE IF SubSeq(b, 4, 8) = <<255, 255, 255, 255, 255>> THEN low - 16777216
       ELSE 16777216

Bad == [ok |-> FALSE]

\* A Label: name and value as length-delimited strings in fields 1 and 2.
ReadLabel(b) ==
    LET fs == Fields(b, 1)
    IN IF \A i \in DOMAIN fs : fs[i].field \in {1, 2} /\ fs[i].wt = 2
         THEN Ok(Label(LastField(fs, 1, [bytes |-> <<>>]).bytes,
                       LastField(fs, 2, [bytes |-> <<>>]).bytes))
         ELSE Bad

\* A Sample: the value as a 64-bit double in field 1; the timestamp in field 2,
\* with wire type tw: 0 a varint, 1 a fixed 64-bit integer.
ReadSample(b, tw) ==
    LET fs == Fields(b, 1)
        t  == LastField(fs, 2, [int |-> 0, bytes |-> <<0, 0, 0, 0, 0, 0, 0, 0>>])
    IN IF \A i \in DOMAIN fs : (fs[i].field = 1 /\ fs[i].wt = 1)
                                 \/ (fs[i].field = 2 /\ fs[i].wt = tw)
         THEN Ok(Sample(F64Value(LastField(fs, 1, [bytes |-> <<0, 0, 0, 0, 0, 0, 0, 0>>]).bytes),
                        IF tw = 0 THEN t.int ELSE Fixed64Value(t.bytes)))
         ELSE Bad

\* A TimeSeries: Label messages under field 1, Sample messages under field 2.
ReadTimeSeries(b, tw) ==
    LET fs == Fields(b, 1)
        ls == SelectSeq(fs, LAMBDA f : f.field = 1)
        ss == SelectSeq(fs, LAMBDA f : f.field = 2)
    IN IF /\ \A i \in DOMAIN fs : fs[i].field \in {1, 2} /\ fs[i].wt = 2
          /\ \A i \in DOMAIN ls : ReadLabel(ls[i].bytes).ok
          /\ \A i \in DOMAIN ss : ReadSample(ss[i].bytes, tw).ok
         THEN Ok(TimeSeries([i \in DOMAIN ls |-> ReadLabel(ls[i].bytes).value],
                            [i \in DOMAIN ss |-> ReadSample(ss[i].bytes, tw).value]))
         ELSE Bad

\* A WriteRequest: TimeSeries messages under field 1.
ReadWriteRequest(b, tw) ==
    LET fs == Fields(b, 1)
    IN IF /\ \A i \in DOMAIN fs : fs[i].field = 1 /\ fs[i].wt = 2
          /\ \A i \in DOMAIN fs : ReadTimeSeries(fs[i].bytes, tw).ok
         THEN Ok(WriteRequest([i \in DOMAIN fs |-> ReadTimeSeries(fs[i].bytes, tw).value]))
         ELSE Bad

\* C9 as stated: the bytes are the fixed layout with the timestamp of a Sample
\* as a fixed-width 64-bit signed integer in field 2; a reader of that layout
\* gets the encoded request back.
C9_TimestampFixed == Encoded => ReadWriteRequest(wire, 1) = Ok(sent)

\* C9 as the code has it: length-delimited TimeSeries under field 1; in them
\* length-delimited Labels under field 1 and Samples under field 2; a Label's name
\* and value as strings in fields 1 and 2; a Sample's value as a fixed-width
\* double in field 1 and its timestamp as a varint int64 in field 2. A reader of
\* that layout gets the encoded request back.
C9_TimestampVarint == Encoded => ReadWriteRequest(wire, 0) = Ok(sent)

\* Two series were encoded, with labels, a negative timestamp and one that takes
\* two varint bytes.
C9_Witness ==
    /\ Encoded
    /\ Len(sent.timeseries) = 2
    /\ Len(sent.timeseries[1].labels) = 3
    /\ \E i \in DOMAIN sent.timeseries[1].samples : sent.timeseries[1].samples[i].timestamp = 300
    /\ \E i \in DOMAIN sent.timeseries[2].samples : sent.timeseries[2].samples[i].timestamp < 0

\* The four headers of a descriptor made for the user agent ua.
FourHeaders(ua) ==
    { <<HeaderName(<<67, 111, 110, 116, 101, 110, 116, 45, 84, 121, 112, 101>>),
        <<97, 112, 112, 108, 105, 99, 97, 116, 105, 111, 110, 47, 120, 45,
          112, 114, 111, 116, 111, 98, 117, 102>> >>,
      <<HeaderName(<<88, 45, 80, 114, 111, 109, 101, 116, 104, 101, 117, 115, 45,
                     82, 101, 109, 111, 116, 101, 45, 87, 114, 105, 116, 101, 45,
                     86, 101, 114, 115, 105, 111, 110>>),
        <<48, 46, 49, 46, 48>> >>,
      <<HeaderName(<<67, 111, 110, 116, 101, 110, 116, 45, 69, 110, 99, 111, 100,
                     105, 110, 103>>),
        <<115, 110, 97, 112, 112, 121>> >>,
      <<HeaderName(<<85, 115, 101, 114, 45, 65, 103, 101, 110, 116>>), ua>> }

\* An endpoint up to its fragment; one that has an authority (the scheme is
\* followed by "//") and no path gets the path "/", before the query if it has
\* one.
Target(e) ==
    LET hash  == Min({i \in 1..(Len(e) + 1) : i > Len(e) \/ e[i] = 35})
        b     == SubSeq(e, 1, hash - 1)
        colon == Min({i \in 1..(Len(b) + 1) : i > Len(b) \/ b[i] = 58})
        slashes == colon + 2 <= Len(b) /\ b[colon + 1] = 47 /\ b[colon + 2] = 47
        end   == Min({i \in (colon + 3)..(Len(b) + 1) : i > Len(b) \/ b[i] \in {47, 63}})
    IN IF ~slashes THEN b
       ELSE IF end <= Len(b) /\ b[end] = 47 THEN b
       ELSE SubSeq(b, 1, end - 1) \o <<47>> \o SubSeq(b, end, Len(b))

\* C10: a descriptor build_http_request returns has the method POST, the
\* endpoint as URI, the compressed payload as body and exactly four headers:
\* Content-Type: application/x-protobuf, X-Prometheus-Remote-Write-Version: 0.1.0,
\* Content-Encoding: snappy and User-Agent: the caller's string.
C10_Descriptor ==
    (http # None /\ http.result.ok) =>
        LET d == http.result.value
        IN /\ d.method = "POST"
           /\ d.uri = http.endpoint
           /\ d.body = CompressVec(wire)
           /\ Len(d.headers) = 4
           /\ {d.headers[i] : i \in DOMAIN d.headers} = FourHeaders(http.user_agent)

\* C10, as the code has it: the URI is the endpoint up to its fragment, with
\* the path "/" when the endpoint has an authority and no path (an endpoint
\* without authority is the URI as it is); the method, the body and the four
\* headers are as said.
C10_DescriptorTarget ==
    (http # None /\ http.result.ok) =>
        LET d == http.result.value
        IN /\ d.method = "POST"
           /\ d.uri = Target(http.endpoint)
           /\ d.body = CompressVec(wire)
           /\ Len(d.headers) = 4
           /\ {d.headers[i] : i \in DOMAIN d.headers} = FourHeaders(http.user_agent)

\* A request with a series in it was wrapped for an endpoint that has a
\* fragment, which the URI lacks.
C10_Witness ==
    /\ http # None
    /\ http.result.ok
    /\ Len(sent.timeseries) >= 1
    /\ Len(http.result.value.body) > 2
    /\ \E i \in DOMAIN http.endpoint : http.endpoint[i] = 35
    /\ Len(http.result.value.uri) < Len(http.endpoint)

-----------------------------------------------------------------------------
(* Properties of Args::build_http_req *)

\* Cmd::parse returned Cmd::Run.
Runs == cmd # None /\ cmd.ok /\ cmd.value.cmd = "Run"

\* The places of argv where a -h/--header argument stands, in a list that runs:
\* every argument of such a list has a value, so arguments stand at odd places.
HeaderPlaces == {i \in DOMAIN argv : i % 2 = 1 /\ argv[i] \in {Arg.h, Arg.header}}

\* The header name given at place i, as header names compare (without case),
\* and the value given with it.
GivenName(i) == ToAsciiLowercase(Trim(Unwrap(SplitOnce(Trim(argv[i + 1]), 61))[1]))
GivenValue(i) == Unwrap(SplitOnce(Trim(argv[i + 1]), 61))[2]

\* The last place at which the name given at place i is given.
LastPlace(i) ==
    CHOOSE j \in HeaderPlaces :
        /\ GivenName(j) = GivenName(i)
        /\ \A k \in HeaderPlaces : GivenName(k) = GivenName(i) => k <= j

\* The values the header called name has in a request.
ValuesOf(headers, name) == {headers[i][2] : i \in {j \in DOMAIN headers : headers[j][1] = name}}

\* How many entries called name a request has.
EntriesOf(headers, name) == Cardinality({j \in DOMAIN headers : headers[j][1] = name})

\* The four fixed headers of build_http_request for the user agent ua.
FixedHeaders(ua) ==
    { <<ToAsciiLowercase(<<67, 111, 110, 116, 101, 110, 116, 45, 84, 121, 112, 101>>), CONTENT_TYPE>>,
      <<ToAsciiLowercase(HEADER_NAME_REMOTE_WRITE_VERSION), REMOTE_WRITE_VERSION_01>>,
      <<ToAsciiLowercase(<<67, 111, 110, 116, 101, 110, 116, 45, 69, 110, 99, 111, 100,
                           105, 110, 103>>), Str_snappy>>,
      <<ToAsciiLowercase(<<85, 115, 101, 114, 45, 65, 103, 101, 110, 116>>), ua>> }

\* C11: Args::build_http_req merges the caller's headers over the fixed ones:
\* in the request it returns every header name given with -h/--header has one
\* entry, with the value the caller gave it (the last, when the name was given
\* more than once), also when the name is one of the four fixed headers; every
\* fixed header the caller did not name has its fixed value; there is no other
\* header; method, URI and body are those build_http_request returned.
C11_MergesHeaders ==
    (out # None /\ out.ok) =>
        LET d == out.value
            h == http.result.value
            given == {GivenName(i) : i \in HeaderPlaces}
        IN /\ d.method = h.method
           /\ d.uri = h.uri
           /\ d.body = h.body
           /\ \A i \in HeaderPlaces :
                /\ EntriesOf(d.headers, GivenName(i)) = 1
                /\ ValuesOf(d.headers, GivenName(i)) = {GivenValue(LastPlace(i))}
           /\ \A f \in FixedHeaders(http.user_agent) :
                f[1] \notin given =>
                    EntriesOf(d.headers, f[1]) = 1 /\ ValuesOf(d.headers, f[1]) = {f[2]}
           /\ {d.headers[i][1] : i \in DOMAIN d.headers}
                = given \cup {f[1] : f \in FixedHeaders(http.user_agent)}

\* A request was built for a list that names a fixed header (Content-Type), a
\* header of its own, and one header twice.
C11_Witness ==
    /\ out # None
    /\ out.ok
    /\ Cardinality(HeaderPlaces) = 3
    /\ Cardinality({GivenName(i) : i \in HeaderPlaces}) = 2
    /\ \E i \in HeaderPlaces : \E f \in FixedHeaders(http.user_agent) :
           GivenName(i) = f[1] /\ GivenValue(i) # f[2]
    /\ Len(out.value.headers) = 5

-----------------------------------------------------------------------------
(* Properties of Cmd::parse *)

\* The arguments that are followed by a value.
TakesValue ==
    {Arg.u, Arg.url, Arg.h, Arg.header, Arg.timeout, Arg.f, Arg.file, Arg.n, Arg.name,
     Arg.t, Arg.type, Arg.v, Arg.value, Arg.l, Arg.label}

\* The places of argv at which an argument stands (the others hold values),
\* reading the list from place i on.
RECURSIVE ArgPlacesFrom(_)
ArgPlacesFrom(i) ==
    IF i > Len(argv) THEN {}
    ELSE {i} \cup ArgPlacesFrom(IF argv[i] \in TakesValue THEN i + 2 ELSE i + 1)

ArgPlaces == ArgPlacesFrom(1)

\* The places at which one of the spellings in g is given.
PlacesOf(g) == {i \in ArgPlaces : argv[i] \in g}

\* The list gives --help or --version.
AsksHelpOrVersion == PlacesOf({Arg.help, Arg.version}) # {}

\* The arguments that can be given once, each with its two spellings.
OnceArgs ==
    { {Arg.u, Arg.url}, {Arg.f, Arg.file}, {Arg.n, Arg.name}, {Arg.t, Arg.type},
      {Arg.v, Arg.value} }

OnceError(g) ==
    CASE Arg.u \in g -> "argument -u/--url can only be specified once"
      [] Arg.f \in g -> "argument -f/--file can only be specified once"
      [] Arg.n \in g -> "argument -n/--name can only be specified once"
      [] Arg.t \in g -> "argument -t/--type can only be specified once"
      [] Arg.v \in g -> "argument -v/--value can only be specified once"

\* The once-only arguments the list gives more than once.
Repeated == {g \in OnceArgs : Cardinality(PlacesOf(g)) >= 2}

\* The place of the second time g is given.
Second(g) == Min(PlacesOf(g) \ {Min(PlacesOf(g))})

\* The list up to place j (without it), read alone, is read to its end: no
\* argument in it is in error and none is --help or --version.
ReadUpTo(j) ==
    LET before == ParseLoop(SubSeq(argv, 1, j - 1), 1, ParseStart, UrlParse, Shifts)
    IN before.ok /\ ~before.value.help /\ ~before.value.version

\* The list up to place j and with the argument at j and its value.
UpWith(j) ==
    SubSeq(argv, 1, IF argv[j] \in TakesValue /\ j < Len(argv) THEN j + 1 ELSE j)

\* The places of the arguments in error: reading the list up to and with such an
\* argument ends with an error, or with the panic of a -h/--header for which
\* the HeaderMap has no room.
InError == {j \in ArgPlaces : ~ParseLoop(UpWith(j), 1, ParseStart, UrlParse, Shifts).ok}

\* What Cmd::parse returns for the list up to and with its first argument in
\* error: the error of that argument.
FirstError == Parse(UpWith(Min(InError)), UrlParse, Shifts)

\* What Cmd::parse returns for the list up to place j, without it.
Before(j) == Parse(SubSeq(argv, 1, j - 1), UrlParse, Shifts)

\* Cmd::parse returned Help, Version or an error.
HelpVersionOrError == cmd \in {Ok(CmdHelp), Ok(CmdVersion)} \/ ~cmd.ok

\* The HeaderMap Cmd::parse holds when it has read the list up to and with place j.
HeadersUpWith(j) == ParseLoop(UpWith(j), 1, ParseStart, UrlParse, Shifts).value.headers

\* The -h/--header at place i is read, and after it the HeaderMap has no room
\* for an insert: its table would have to grow past MAX_SIZE.
NoRoomAt(i) ==
    /\ argv[i] \in {Arg.h, Arg.header}
    /\ ReadUpTo(i)
    /\ ~TryReserveOne(HeadersUpWith(i)).ok

\* The list with the argument at place i and its value given once more, right
\* after themselves.
GivenAgain(i) ==
    SubSeq(argv, 1, i + 1) \o SubSeq(argv, i, i + 1) \o SubSeq(argv, i + 2, Len(argv))

\* C12 as stated: a list that gives one of -u/--url, -f/--file, -n/--name,
\* -t/--type, -v/--value more than once (either spelling) is rejected with the
\* error that this argument can only be specified once.
C12_RejectsRepeated ==
    (cmd # None /\ Repeated # {}) =>
        ~cmd.ok /\ cmd.err \in {OnceError(g) : g \in Repeated}

\* C12 as the code has it: the second time one of these five arguments is
\* read (either spelling), Cmd::parse returns the error that it can only be
\* specified once; it is read unless --help, --version or an argument in error
\* comes before it in the list, and then Cmd::parse returns what it returns
\* for the list before that place: Help, Version or the earlier error.
\* -l/--label, -h/--header and --timeout may be repeated: giving one of them
\* once more, with the same value, in a list that is accepted changes nothing
\* in what Cmd::parse returns, unless the HeaderMap has no room after the
\* headers read: the insert of one more -h/--header then panics.
C12_RejectsSecondRead ==
    cmd # None =>
        /\ Repeated # {} =>
             LET j == Min({Second(g) : g \in Repeated})
                 g == CHOOSE r \in Repeated : Second(r) = j
             IN IF ReadUpTo(j) THEN cmd = Err(OnceError(g))
                ELSE cmd = Before(j) /\ HelpVersionOrError
        /\ cmd.ok =>
             \A i \in PlacesOf({Arg.l, Arg.label, Arg.h, Arg.header, Arg.timeout}) :
                 i < Len(argv) =>
                     IF NoRoomAt(i)
                       THEN Parse(GivenAgain(i), UrlParse, Shifts)
                              = HeaderInsert(HeadersUpWith(i), GivenName(i), GivenValue(i), Shifts)
                       ELSE Parse(GivenAgain(i), UrlParse, Shifts) = cmd

\* A name was given with -n and again with --name, after a label, and the list
\* was rejected for it.
C12_Witness ==
    /\ cmd # None
    /\ ~cmd.ok
    /\ cmd.err = "argument -n/--name can only be specified once"
    /\ \E i, j \in ArgPlaces : 1 < i /\ i < j /\ argv[i] = Arg.n /\ argv[j] = Arg.name
    /\ PlacesOf({Arg.l, Arg.label}) # {}

\* The arguments of a metric given by hand, each with its two spellings.
MetricArgs ==
    { {Arg.n, Arg.name}, {Arg.t, Arg.type}, {Arg.v, Arg.value}, {Arg.l, Arg.label} }

CannotError(g) ==
    CASE Arg.n \in g -> "argument -n/--name cannot be used with -f/--file"
      [] Arg.t \in g -> "argument -t/--type cannot be used with -f/--file"
      [] Arg.v \in g -> "argument -v/--value cannot be used with -f/--file"
      [] Arg.l \in g -> "argument -l/--label cannot be used with -f/--file"

\* The metric arguments the list gives.
GivenMetricArgs == {g \in MetricArgs : PlacesOf(g) # {}}

FileGiven == PlacesOf({Arg.f, Arg.file}) # {}

UrlGiven == PlacesOf({Arg.u, Arg.url}) # {}

\* Cmd::parse returned Cmd::Run with a file as input.
RunsFile == Runs /\ cmd.value.args.input.file

\* C13 as stated: whenever -f/--file is given together with any of -n/--name,
\* -t/--type, -v/--value, -l/--label, in any order, Cmd::parse returns the error
\* that one of these cannot be used with -f/--file; and a Cmd::Run with input
\* File(path) is returned only when none of them was given.
C13_FileExcludesMetric ==
    cmd # None =>
        /\ (FileGiven /\ GivenMetricArgs # {}) =>
             ~cmd.ok /\ cmd.err \in {CannotError(g) : g \in GivenMetricArgs}
        /\ RunsFile => GivenMetricArgs = {}

\* C13 as the code has it: the check is made after the whole list was read and
\* the URL was found. Whenever -f/--file is given together with any of
\* -n/--name, -t/--type, -v/--value, -l/--label, in any order, in a list that
\* has -u/--url, no --help or --version and no argument in error, Cmd::parse
\* returns the error that one of those given cannot be used with -f/--file;
\* in another list it returns the error of the first argument in error, Help
\* or Version, or the error that -u/--url is missing. A Cmd::Run with input
\* File(path) is returned only when none of them was given.
C13_FileExcludesMetricWhenRead ==
    cmd # None =>
        /\ (FileGiven /\ GivenMetricArgs # {}) =>
             IF UrlGiven /\ ReadUpTo(Len(argv) + 1)
               THEN ~cmd.ok /\ cmd.err \in {CannotError(g) : g \in GivenMetricArgs}
             ELSE IF InError # {} THEN cmd = FirstError /\ ~cmd.ok
             ELSE IF AsksHelpOrVersion THEN cmd \in {Ok(CmdHelp), Ok(CmdVersion)}
             ELSE cmd = Err("missing required argument -u/--url")
        /\ RunsFile => GivenMetricArgs = {}

\* A label was given before the file, and the list was rejected for the label.
C13_Witness ==
    /\ cmd # None
    /\ ~cmd.ok
    /\ cmd.err = "argument -l/--label cannot be used with -f/--file"
    /\ \E i \in PlacesOf({Arg.l, Arg.label}) : \E j \in PlacesOf({Arg.f, Arg.file}) : i < j

\* C14: every example invocation printed in the usage text is accepted by
\* Cmd::parse and yields Cmd::Run: the gauge, counter, explicit-type and labels
\* examples, the file example (--url <url> --file metrics.txt -l instance=localhost)
\* and the stdin example (-f -).
C14_ExamplesRun == (cmd # None /\ argv \in UsageExamples) => Runs

\* C15: the argument -h, like --help, makes the program print the help message
\* and exit: Cmd::parse returns Cmd::Help for a list whose first argument is -h.
C15_ShortHelp == (cmd # None /\ argv # <<>> /\ argv[1] = Arg.h) => cmd = Ok(CmdHelp)

\* Cmd::parse returned Cmd::Run with a metric given by hand as input.
RunsMetric == Runs /\ ~cmd.value.args.input.file

\* The value given with the argument at place i, without the white space around it.
ValueAt(i) == Trim(argv[i + 1])

\* The type of a metric in the list is settled as claimed: without -t/--type
\* by the name, with -t/--type counter or gauge (the white space around the
\* word apart) by that, and no metric is made with another type string.
TypeAsClaimed ==
    RunsMetric =>
        LET m == cmd.value.args.input
        IN /\ \A i \in PlacesOf({Arg.n, Arg.name}) : m.name = ValueAt(i)
           /\ PlacesOf({Arg.t, Arg.type}) = {} =>
                m.kind = (IF EndsWith(m.name, <<95, 116, 111, 116, 97, 108>>)
                            THEN "Counter" ELSE "Gauge")
           /\ \A i \in PlacesOf({Arg.t, Arg.type}) :
                /\ ValueAt(i) = TypeName.counter => m.kind = "Counter"
                /\ ValueAt(i) = TypeName.gauge => m.kind = "Gauge"
                /\ ValueAt(i) \in {TypeName.counter, TypeName.gauge}

\* The places at which -t/--type is given with a type other than counter and gauge.
OtherTypePlaces ==
    {i \in PlacesOf({Arg.t, Arg.type}) :
        i < Len(argv) /\ ValueAt(i) \notin {TypeName.counter, TypeName.gauge}}

\* C16 as stated: for a metric given by hand without -t/--type the type is
\* Counter if the trimmed name ends with _total and Gauge otherwise; with
\* -t/--type counter or gauge it is that type whatever the name; a list that
\* gives histogram, summary or any other type string is rejected with an error.
C16_TypeDefault ==
    cmd # None => (TypeAsClaimed /\ (OtherTypePlaces # {} => ~cmd.ok))

\* C16 as the code has it: the same, and a list that gives histogram, summary
\* or any other type string is rejected with an error unless --help or
\* --version comes before it in the list: Cmd::parse then returns what it
\* returns for the list up to and with the first --help or --version, which is
\* Help, Version or the error of an argument before it.
C16_TypeDefaultWhenRead ==
    cmd # None =>
        /\ TypeAsClaimed
        /\ \A i \in OtherTypePlaces :
             LET asked == {j \in PlacesOf({Arg.help, Arg.version}) : j < i}
             IN IF asked = {} THEN ~cmd.ok
                ELSE cmd = Before(Min(asked) + 1) /\ HelpVersionOrError

\* A name that ends with _total, given with spaces around it, made a gauge: the
\* type was given as gauge, with spaces around the word.
C16_Witness ==
    /\ RunsMetric
    /\ \E i \in PlacesOf({Arg.n, Arg.name}) :
           argv[i + 1] # ValueAt(i) /\ EndsWith(ValueAt(i), Str_total)
    /\ \E i \in PlacesOf({Arg.t, Arg.type}) :
           argv[i + 1] # ValueAt(i) /\ ValueAt(i) = TypeName.gauge
    /\ cmd.value.args.input.kind = "Gauge"

NameGiven == PlacesOf({Arg.n, Arg.name}) # {}

ValueGiven == PlacesOf({Arg.v, Arg.value}) # {}

MissingErrors ==
    { "missing required argument -u/--url",
      "missing required argument -n/--name",
      "missing required argument -v/--value" }

\* A required argument is not in the list.
LacksRequired == ~UrlGiven \/ (~FileGiven /\ (~NameGiven \/ ~ValueGiven))

\* Every Cmd::Run has a URL, and a file path or a non-empty name and a value,
\* and the list gave them.
RunHasRequired ==
    Runs =>
        /\ UrlGiven
        /\ cmd.value.args.url # <<>>
        /\ IF cmd.value.args.input.file
             THEN FileGiven
             ELSE NameGiven /\ ValueGiven /\ cmd.value.args.input.name # <<>>

\* C17 as stated: Cmd::Run is returned only when the required arguments are
\* present, and a list without --help/--version that lacks -u/--url, or that
\* has no -f/--file and lacks -n/--name or -v/--value, yields a "missing
\* required argument" error.
C17_Required ==
    cmd # None =>
        /\ RunHasRequired
        /\ (~AsksHelpOrVersion /\ LacksRequired) => (~cmd.ok /\ cmd.err \in MissingErrors)

\* C17 as the code has it: the required arguments are looked for after the
\* whole list was read, so the "missing required argument" error is what a
\* list without --help/--version that lacks them yields when none of its
\* arguments is in error; with one in error the list yields the error of the
\* first of them, the one Cmd::parse returns for the list cut after it.
C17_RequiredWhenRead ==
    cmd # None =>
        /\ RunHasRequired
        /\ (~AsksHelpOrVersion /\ LacksRequired) =>
             /\ ~cmd.ok
             /\ IF InError = {} THEN cmd.err \in MissingErrors ELSE cmd = FirstError

\* A URL and a name were given, and a timeout, but no value.
C17_Witness ==
    /\ cmd # None
    /\ ~cmd.ok
    /\ cmd.err = "missing required argument -v/--value"
    /\ UrlGiven
    /\ NameGiven
    /\ Len(argv) = 6

-----------------------------------------------------------------------------
(* Properties of the order of samples and of the series sort *)

\* The samples of the observations that the text puts under the key id at the
\* timestamp t, in the order of the text.
ObservedAt(id, t) ==
    LET obs == SelectSeq(samples, LAMBDA s : IdentOf(s) = id /\ s.timestamp = t)
    IN [i \in DOMAIN obs |-> Sample(obs[i].value, obs[i].timestamp)]

\* The samples of a series at the timestamp t, in the order of the series.
SamplesAt(series, t) == SelectSeq(series.samples, LAMBDA s : s.timestamp = t)

\* C18: samples with equal timestamps keep their input order: in every series
\* from_text_format returns, and after any further call of sort(), the samples
\* of one timestamp stand in the order in which their observations stood in
\* the text.
C18_TiesKeepOrder ==
    (Parsed /\ req # None) =>
        \A id \in DOMAIN groups :
            \E k \in DOMAIN req.timeseries :
                /\ req.timeseries[k].labels = groups[id].labels
                /\ \A i \in DOMAIN samples :
                     SamplesAt(req.timeseries[k], samples[i].timestamp)
                       = ObservedAt(id, samples[i].timestamp)
                /\ \A i \in DOMAIN req.timeseries[k].samples :
                     \E j \in DOMAIN samples :
                         samples[j].timestamp = req.timeseries[k].samples[i].timestamp

\* A series got a later sample first and then two samples of one timestamp,
\* of different values; the request was sorted again after the parse.
C18_Witness ==
    /\ Parsed
    /\ sorts >= 1
    /\ Len(samples) = 3
    /\ Identity(samples[1]) = Identity(samples[2])
    /\ Identity(samples[2]) = Identity(samples[3])
    /\ samples[1].timestamp > samples[2].timestamp
    /\ samples[2].timestamp = samples[3].timestamp
    /\ samples[2].value # samples[3].value

\* C19: the series sort of from_text_format never panics: every series
\* samples_to_timeseries returns has at least one label named __name__, also
\* the series of an observation without labels, so the unwrap() of the __name__
\* lookup in the comparator always finds a label.
C19_NameFound ==
    (source = "text" /\ calls > 0) =>
        /\ result # Panic
        /\ first # Panic
        /\ result.ok => \A id \in DOMAIN groups : HasName(groups[id])

\* A text with a sample without labels and a second series was parsed, so the
\* comparator was called.
C19_Witness ==
    /\ Parsed
    /\ Len(result.value.timeseries) >= 2
    /\ \E i \in DOMAIN samples : DOMAIN samples[i].labels = {}

====
